---- MODULE Spec2Model ----
(***************************************************************************)
(* Mooddit backend: time-bucketed sentiment aggregation (main.py),         *)
(* velocity / trending scoring (trending_discovery.py), topic extraction   *)
(* and clustering (topic_extractor.py).                                    *)
(*                                                                         *)
(* Time is counted in whole hours.  A DataFrame is a sequence of rows.     *)
(* None is the empty sequence and a present value v is <<v>>.              *)
(* A rational number is a record [n |-> numerator, d |-> denominator > 0]. *)
(***************************************************************************)
EXTENDS Integers, Sequences, FiniteSets, TLC

\* ------------------------------------------------------------------ bounds
MaxWindow == 4
MaxInterval == 2
MaxPosts == 3
MaxScore == 1
MaxComments == 1
MaxAwards == 1
MaxDelay == 1

\* ------------------------------------------------------- generic helpers
None == <<>>
Some(v) == <<v>>

Rat(n, d) == [n |-> n, d |-> d]

RECURSIVE GCD(_, _)
GCD(a, b) == IF b = 0 THEN a ELSE GCD(b, a % b)

\* n/d in lowest terms
Reduced(n, d) ==
    LET g == GCD(IF n < 0 THEN -n ELSE n, d)
    IN  Rat(n \div g, d \div g)

\* the numerators of a and b over their least common denominator
OverCommon(a, b) ==
    LET g == GCD(a.d, b.d)
    IN  [a |-> a.n * (b.d \div g), b |-> b.n * (a.d \div g), d |-> (a.d \div g) * b.d]

RatEq(a, b) == OverCommon(a, b).a = OverCommon(a, b).b
RatLe(a, b) == OverCommon(a, b).a <= OverCommon(a, b).b
RatLt(a, b) == OverCommon(a, b).a < OverCommon(a, b).b
RatAdd(a, b) == Reduced(OverCommon(a, b).a + OverCommon(a, b).b, OverCommon(a, b).d)
RatMul(a, b) == Reduced(a.n * b.n, a.d * b.d)
RatMax(a, b) == IF RatLe(a, b) THEN b ELSE a

Abs(x) == IF x < 0 THEN -x ELSE x

\* Python round(x, k) for x = n/d and scale = 10^k: the nearest multiple of
\* 1/scale, an exact tie going to the even neighbour.
RoundHalfEven(n, d, scale) ==
    LET num == Abs(n) * scale
        q == num \div d
        r == num % d
        up == IF 2 * r > d THEN q + 1
              ELSE IF 2 * r < d THEN q
              ELSE IF q % 2 = 0 THEN q ELSE q + 1
    IN  IF n < 0 THEN -up ELSE up

RECURSIVE SumSeq(_)
SumSeq(s) == IF s = <<>> THEN 0 ELSE Head(s) + SumSeq(Tail(s))

\* ------------------------------------------------------------- state
VARIABLES
    request,         \* AnalysisRequest: time_window_hours, interval_hours, trim_empty_intervals
    posts_df,        \* rows returned by fetch_reddit_posts, with the classifier's verdict
    time_cutoff,     \* utcnow() - time_window_hours
    endpoint,        \* which handler has run: "none", "analyze", "charts", "trends"
    status_code,     \* 0 before a handler ran, then 200 or 404
    time_series_df,  \* the window's rows sorted by created_utc
    time_bins,       \* pd.date_range edges
    grouped_data,    \* analyze: per-bucket records before the fill
    time_series,     \* analyze: per-bucket records after the fill
    sentiment_over_time_data,
    posts_over_time_data,
    sentiment_posts_over_time_data,
    trend_df,        \* calculate_sentiment_trends result
    children,        \* the posts of the Reddit hot listing, as received
    score_delay,     \* ticks between the clock reading of the velocity and of the score
    stage,           \* "start", then "fetched", "scored", "extracted" or "grouped"
    trending_df,     \* fetch_trending_posts result
    scored_df,       \* get_trending_posts_with_scores result
    topic_scores,    \* extract_topics_from_posts: the candidates before grouping
    topics,          \* extract_topics_from_posts result
    raised,          \* the exception that ended the call, "" when none
    topic_request,   \* top_n and min_posts of extract_top_trending_topics, None before
    linear_pred,     \* predict_sentiment: the linear method's points, <<>> when not run
    ma_pred,         \* predict_sentiment: the moving-average method's points
    prediction_result, \* predict_sentiment: the returned dictionary, None before
    fetch_limit,     \* fetch_reddit_posts: the limit argument
    all_posts,       \* fetch_reddit_posts: the posts collected so far
    after,           \* fetch_reddit_posts: the cursor of the last page, None when absent
    page_requests,   \* fetch_reddit_posts: the number of requests.get calls made
    fetch_pc,        \* "idle", then "loop", "stopped" after a break, "done" after the return
    fetched_df       \* fetch_reddit_posts: the returned frame, None before

apiVars == <<request, posts_df, time_cutoff, endpoint, status_code, time_series_df,
             time_bins, grouped_data, time_series, sentiment_over_time_data,
             posts_over_time_data, sentiment_posts_over_time_data, trend_df>>

trendVars == <<children, score_delay, stage, trending_df, scored_df, topic_scores,
               topics, raised, topic_request>>

forecastVars == <<linear_pred, ma_pred, prediction_result>>

fetchVars == <<fetch_limit, all_posts, after, page_requests, fetch_pc, fetched_df>>

vars == <<apiVars, trendVars, forecastVars, fetchVars>>

\* ------------------------------------------------- classifier (external)
\* analyze_sentiment returns (label, score); both backends use these labels.
ClassifierLabels == {"positive", "negative", "neutral"}

label_map(label) ==
    CASE label \in {"LABEL_0", "negative"} -> -1
      [] label \in {"LABEL_1", "neutral"} -> 0
      [] label \in {"LABEL_2", "positive"} -> 1
      [] OTHER -> 0

\* str.lower() on the label strings that can occur
str_lower(label) ==
    CASE label = "LABEL_0" -> "label_0"
      [] label = "LABEL_1" -> "label_1"
      [] label = "LABEL_2" -> "label_2"
      [] label = "POSITIVE" -> "positive"
      [] label = "NEGATIVE" -> "negative"
      [] label = "NEUTRAL" -> "neutral"
      [] OTHER -> label

normalize_label(label) ==
    LET label_lower == str_lower(label)
    IN  IF label_lower \in {"positive", "label_2"} THEN "positive"
        ELSE IF label_lower \in {"negative", "label_0"} THEN "negative"
        ELSE "neutral"

\* ------------------------------------------------------ DataFrame helpers
\* posts_df[posts_df["created_utc"] >= time_cutoff]
FilterWindow(df, cutoff) == SelectSeq(df, LAMBDA r : r.created_utc >= cutoff)

IsSortedByTime(df) ==
    \A i \in 1..(Len(df) - 1) : df[i].created_utc <= df[i + 1].created_utc

\* sort_values("created_utc"): the default sort is not stable, so rows with
\* equal timestamps may come out in any order.
SortValuesByTime(df) ==
    { s \in { [i \in 1..Len(df) |-> df[p[i]]] : p \in Permutations(1..Len(df)) } :
        IsSortedByTime(s) }

\* pd.date_range(start, end, freq=h): start, start+h, ... while <= end
date_range(start, end, h) ==
    IF end < start THEN <<>>
    ELSE [k \in 1..(((end - start) \div h) + 1) |-> start + (k - 1) * h]

\* rows with start <= created_utc < end
Between(df, start, end) ==
    SelectSeq(df, LAMBDA r : r.created_utc >= start /\ r.created_utc < end)

\* ------------------------------------------------ value_counts / idxmax
RECURSIVE Unique(_)
\* the distinct values of s in order of first appearance
Unique(s) ==
    IF s = <<>> THEN <<>>
    ELSE LET rest == Unique(SelectSeq(Tail(s), LAMBDA x : x # Head(s)))
         IN  <<Head(s)>> \o rest

CountOf(s, v) == Len(SelectSeq(s, LAMBDA x : x = v))

RECURSIVE InsertDesc(_, _)
\* stable insertion into a sequence sorted by non-increasing count
InsertDesc(sorted, e) ==
    IF sorted = <<>> THEN <<e>>
    ELSE IF Head(sorted).count >= e.count THEN <<Head(sorted)>> \o InsertDesc(Tail(sorted), e)
    ELSE <<e>> \o sorted

RECURSIVE SortDesc(_)
SortDesc(s) ==
    IF s = <<>> THEN <<>>
    ELSE InsertDesc(SortDesc(SubSeq(s, 1, Len(s) - 1)), s[Len(s)])

\* Series.value_counts(): keys in order of first appearance, then sorted by
\* non-increasing count, equal counts keeping their order
value_counts(s) ==
    LET keys == Unique(s)
    IN  SortDesc([i \in 1..Len(keys) |-> [key |-> keys[i], count |-> CountOf(s, keys[i])]])

\* the mutant returns the last row holding the maximum
idxmaxLast(vc) ==
    LET best == CHOOSE i \in 1..Len(vc) :
                    /\ \A j \in 1..Len(vc) : vc[j].count <= vc[i].count
                    /\ \A j \in (i + 1)..Len(vc) : vc[j].count < vc[i].count
    IN  vc[best].key

\* Series.idxmax(): the key of the first row holding the maximum
idxmax(vc) ==
    LET best == CHOOSE i \in 1..Len(vc) :
                    /\ \A j \in 1..Len(vc) : vc[j].count <= vc[i].count
                    /\ \A j \in 1..(i - 1) : vc[j].count < vc[i].count
    IN  vc[best].key

Labels(df) == [i \in 1..Len(df) |-> df[i].sentiment_label]

\* ------------------------------------------------ analyze: one bucket
\* the mutant lets the neutral rows vote
DominantSentimentAllVote(subset) ==
    IF subset = <<>> THEN None
    ELSE LET label_lower == str_lower(idxmax(value_counts(Labels(subset))))
         IN  IF label_lower \in {"positive", "label_2"} THEN Some(1)
             ELSE IF label_lower \in {"negative", "label_0"} THEN Some(-1)
             ELSE Some(0)

DominantSentiment(subset) ==
    IF subset = <<>> THEN None
    ELSE LET filtered_subset ==
                 SelectSeq(subset, LAMBDA r :
                     str_lower(r.sentiment_label) \in {"positive", "negative", "label_2", "label_0"})
         IN  IF filtered_subset = <<>> THEN None
             ELSE LET dominant == idxmax(value_counts(Labels(filtered_subset)))
                      label_lower == str_lower(dominant)
                  IN  IF label_lower \in {"positive", "label_2"} THEN Some(1)
                      ELSE IF label_lower \in {"negative", "label_0"} THEN Some(-1)
                      ELSE Some(0)

GroupedData(df, bins) ==
    [i \in 1..(Len(bins) - 1) |->
        [timestamp |-> bins[i],
         sentiment_value |-> DominantSentiment(Between(df, bins[i], bins[i + 1]))]]

\* ------------------------------------------------ analyze: forward fill
RECURSIVE ffillOneStep(_, _)
\* the mutant fills only the bucket right after a known one
ffillOneStep(col, last) ==
    IF col = <<>> THEN <<>>
    ELSE IF Head(col) = None THEN <<last>> \o ffillOneStep(Tail(col), None)
    ELSE <<Head(col)>> \o ffillOneStep(Tail(col), Head(col))

RECURSIVE ffill(_, _)
\* fillna(method="ffill"): a missing value takes the last value seen before it
ffill(col, last) ==
    IF col = <<>> THEN <<>>
    ELSE IF Head(col) = None THEN <<last>> \o ffill(Tail(col), last)
    ELSE <<Head(col)>> \o ffill(Tail(col), Head(col))

fillna(col, v) == [i \in 1..Len(col) |-> IF col[i] = None THEN Some(v) ELSE col[i]]

ForwardFill(grouped) ==
    LET col == [i \in 1..Len(grouped) |-> grouped[i].sentiment_value]
        filled == fillna(ffill(col, None), 0)
    IN  [i \in 1..Len(grouped) |->
            [timestamp |-> grouped[i].timestamp, sentiment_value |-> filled[i][1]]]

\* ------------------------------------------------ charts: one bucket
CountLabel(subset, name) ==
    Len(SelectSeq(subset, LAMBDA r : normalize_label(r.sentiment_label) = name))

\* the mutant forgets the negative rows in the average
SentimentOverTimePositiveOnly(subset, start) ==
    [timestamp |-> start,
     average_sentiment |->
         IF subset = <<>> THEN Rat(0, 1)
         ELSE Rat(RoundHalfEven(CountLabel(subset, "positive"), Len(subset), 1000), 1000),
     positive_count |-> CountLabel(subset, "positive"),
     negative_count |-> CountLabel(subset, "negative"),
     neutral_count |-> CountLabel(subset, "neutral"),
     total_posts |-> Len(subset)]

SentimentOverTime(subset, start) ==
    IF subset # <<>>
    THEN LET pos_count == CountLabel(subset, "positive")
             neg_count == CountLabel(subset, "negative")
             neu_count == CountLabel(subset, "neutral")
             total == Len(subset)
         IN  [timestamp |-> start,
              \* round(avg_sentiment, 3)
              average_sentiment |-> Rat(RoundHalfEven(pos_count - neg_count, total, 1000), 1000),
              positive_count |-> pos_count,
              negative_count |-> neg_count,
              neutral_count |-> neu_count,
              total_posts |-> total]
    ELSE [timestamp |-> start, average_sentiment |-> Rat(0, 1),
          positive_count |-> 0, negative_count |-> 0, neutral_count |-> 0, total_posts |-> 0]

PostsOverTime(subset, start) == [timestamp |-> start, posts |-> Len(subset)]

SentimentPostsOverTime(subset, start) ==
    [timestamp |-> start,
     positive |-> CountLabel(subset, "positive"),
     negative |-> CountLabel(subset, "negative"),
     neutral |-> CountLabel(subset, "neutral")]

\* indexes of the buckets with posts > 0
NonZero(pot) == { i \in 1..Len(pot) : pot[i].posts > 0 }

Min(S) == CHOOSE x \in S : \A y \in S : x <= y
Max(S) == CHOOSE x \in S : \A y \in S : y <= x

\* the mutant trims the leading empty buckets only
TrimLeadingOnly(data, pot, trim) ==
    IF trim /\ NonZero(pot) # {}
    THEN SubSeq(data, Min(NonZero(pot)), Len(data))
    ELSE data

\* data[first_non_zero:last_non_zero + 1] when one exists, else data
Trim(data, pot, trim) ==
    IF trim /\ NonZero(pot) # {}
    THEN SubSeq(data, Min(NonZero(pot)), Max(NonZero(pot)))
    ELSE data

\* ------------------------------------------------ calculate_sentiment_trends
floor_to(t, h) == t - (t % h)
ceil_to(t, h) == IF t % h = 0 THEN t ELSE t - (t % h) + h

TimesOf(df) == { df[i].created_utc : i \in 1..Len(df) }

TrendPoint(interval_posts, start_time) ==
    IF Len(interval_posts) > 0
    THEN LET positive_count == Len(SelectSeq(interval_posts, LAMBDA r : r.sentiment_label = "positive"))
             negative_count == Len(SelectSeq(interval_posts, LAMBDA r : r.sentiment_label = "negative"))
             neutral_count == Len(SelectSeq(interval_posts, LAMBDA r : r.sentiment_label = "neutral"))
             total_posts == Len(interval_posts)
             scores == [i \in 1..total_posts |-> label_map(interval_posts[i].sentiment_label)]
         IN  [timestamp |-> start_time,
              avg_sentiment |-> Rat(SumSeq(scores), total_posts),
              sentiment_ratio |-> Rat(positive_count - negative_count, total_posts),
              positive_count |-> positive_count,
              negative_count |-> negative_count,
              neutral_count |-> neutral_count,
              total_posts |-> total_posts]
    ELSE [timestamp |-> start_time, avg_sentiment |-> Rat(0, 1), sentiment_ratio |-> Rat(0, 1),
          positive_count |-> 0, negative_count |-> 0, neutral_count |-> 0, total_posts |-> 0]

calculate_sentiment_trends(df, interval_hours) ==
    IF df = <<>> THEN <<>>
    ELSE LET intervals == date_range(floor_to(Min(TimesOf(df)), interval_hours),
                                     ceil_to(Max(TimesOf(df)), interval_hours),
                                     interval_hours)
         IN  [i \in 1..(Len(intervals) - 1) |->
                 TrendPoint(Between(df, intervals[i], intervals[i + 1]), intervals[i])]

\* ------------------------------------------------ the endpoints
utcnow == MaxWindow + 1

\* a six hour window in two hour buckets
ScenarioRequest == [time_window_hours |-> 6, interval_hours |-> 2, trim_empty_intervals |-> TRUE]

Requests ==
    [time_window_hours : 1..MaxWindow, interval_hours : 1..MaxInterval,
     trim_empty_intervals : BOOLEAN] \cup {ScenarioRequest}

PostRows == [created_utc : 0..(utcnow - 1), sentiment_label : ClassifierLabels]

\* search results come newest first
IsNewestFirst(df) ==
    \A i \in 1..(Len(df) - 1) : df[i].created_utc >= df[i + 1].created_utc

RECURSIVE SeqsUpTo(_, _)
SeqsUpTo(S, n) ==
    IF n = 0 THEN {<<>>}
    ELSE LET shorter == SeqsUpTo(S, n - 1)
         IN  shorter \cup { Append(s, x) : s \in { t \in shorter : Len(t) = n - 1 }, x \in S }

RowAt(t, label) == [created_utc |-> t, sentiment_label |-> label]

\* six positive posts one hour apart; one bucket holding pos, neg, neg, neutral
ScenarioPosts ==
    { [i \in 1..6 |-> RowAt(utcnow - i, "positive")],
      <<RowAt(utcnow - 1, "positive"), RowAt(utcnow - 1, "negative"),
        RowAt(utcnow - 1, "negative"), RowAt(utcnow - 1, "neutral")>>,
      <<RowAt(utcnow - 1, "neutral"), RowAt(utcnow - 1, "negative"),
        RowAt(utcnow - 1, "positive"), RowAt(utcnow - 1, "negative")>> }

ApiNoResult ==
    /\ status_code = 0
    /\ time_series_df = <<>>
    /\ time_bins = <<>>
    /\ grouped_data = <<>>
    /\ time_series = <<>>
    /\ sentiment_over_time_data = <<>>
    /\ posts_over_time_data = <<>>
    /\ sentiment_posts_over_time_data = <<>>
    /\ trend_df = <<>>
    /\ linear_pred = <<>>
    /\ ma_pred = <<>>
    /\ prediction_result = None
    /\ fetch_limit = 0
    /\ all_posts = <<>>
    /\ after = None
    /\ page_requests = 0
    /\ fetch_pc = "idle"
    /\ fetched_df = None

TrendIdle ==
    /\ children = <<>>
    /\ score_delay = 0
    /\ stage = "start"
    /\ trending_df = <<>>
    /\ scored_df = <<>>
    /\ topic_scores = <<>>
    /\ topics = <<>>
    /\ raised = ""
    /\ topic_request = None

ApiInit ==
    /\ TrendIdle
    /\ posts_df \in { s \in SeqsUpTo(PostRows, MaxPosts) : IsNewestFirst(s) } \cup ScenarioPosts
    /\ request = [time_window_hours |-> 1, interval_hours |-> 1, trim_empty_intervals |-> TRUE]
    /\ time_cutoff = utcnow - 1
    /\ endpoint = "none"
    /\ ApiNoResult

\* the two 404 exits: nothing fetched, or nothing left in the window
\* the mutant forgets the second exit
ResponseStatusUnfiltered(posts, filtered_df) == IF posts = <<>> THEN 404 ELSE 200

ResponseStatus(posts, filtered_df) ==
    IF posts = <<>> \/ filtered_df = <<>> THEN 404 ELSE 200

\* POST /api/analyze
Analyze ==
    /\ endpoint = "none"
    /\ \E req \in Requests :
         LET cutoff == utcnow - req.time_window_hours
             filtered_df == FilterWindow(posts_df, cutoff)
         IN  /\ request' = req
             /\ time_cutoff' = cutoff
             /\ endpoint' = "analyze"
             /\ IF ResponseStatus(posts_df, filtered_df) = 404
                THEN /\ status_code' = 404
                     /\ UNCHANGED <<time_series_df, time_bins, grouped_data, time_series>>
                ELSE \E sorted \in SortValuesByTime(filtered_df) :
                       LET bins == date_range(cutoff, utcnow, req.interval_hours)
                           grouped == GroupedData(sorted, bins)
                       IN  /\ status_code' = 200
                           /\ time_series_df' = sorted
                           /\ time_bins' = bins
                           /\ grouped_data' = grouped
                           /\ time_series' = ForwardFill(grouped)
    /\ UNCHANGED <<posts_df, sentiment_over_time_data, posts_over_time_data,
                   sentiment_posts_over_time_data, trend_df, trendVars, forecastVars, fetchVars>>

\* POST /api/charts
Charts ==
    /\ endpoint = "none"
    /\ \E req \in Requests :
         LET cutoff == utcnow - req.time_window_hours
             filtered_df == FilterWindow(posts_df, cutoff)
         IN  /\ request' = req
             /\ time_cutoff' = cutoff
             /\ endpoint' = "charts"
             /\ IF ResponseStatus(posts_df, filtered_df) = 404
                THEN /\ status_code' = 404
                     /\ UNCHANGED <<time_series_df, time_bins, sentiment_over_time_data,
                                    posts_over_time_data, sentiment_posts_over_time_data>>
                ELSE \E sorted \in SortValuesByTime(filtered_df) :
                       LET bins == date_range(cutoff, utcnow, req.interval_hours)
                           n == Len(bins) - 1
                           sub(i) == Between(sorted, bins[i], bins[i + 1])
                           sot == [i \in 1..n |-> SentimentOverTime(sub(i), bins[i])]
                           pot == [i \in 1..n |-> PostsOverTime(sub(i), bins[i])]
                           spot == [i \in 1..n |-> SentimentPostsOverTime(sub(i), bins[i])]
                       IN  /\ status_code' = 200
                           /\ time_series_df' = sorted
                           /\ time_bins' = bins
                           /\ sentiment_over_time_data' = Trim(sot, pot, req.trim_empty_intervals)
                           /\ posts_over_time_data' = Trim(pot, pot, req.trim_empty_intervals)
                           /\ sentiment_posts_over_time_data' =
                                  Trim(spot, pot, req.trim_empty_intervals)
    /\ UNCHANGED <<posts_df, grouped_data, time_series, trend_df, trendVars, forecastVars, fetchVars>>

\* prepare_time_series_data followed by calculate_sentiment_trends, as
\* predict_sentiment runs them on the rows of the window
Trends ==
    /\ endpoint = "none"
    /\ \E req \in Requests :
         LET cutoff == utcnow - req.time_window_hours
             filtered_df == FilterWindow(posts_df, cutoff)
         IN  /\ request' = req
             /\ time_cutoff' = cutoff
             /\ endpoint' = "trends"
             /\ status_code' = 200
             /\ \E sorted \in SortValuesByTime(filtered_df) :
                  /\ time_series_df' = sorted
                  /\ trend_df' = calculate_sentiment_trends(sorted, req.interval_hours)
    /\ UNCHANGED <<posts_df, time_bins, grouped_data, time_series, sentiment_over_time_data,
                   posts_over_time_data, sentiment_posts_over_time_data, trendVars, forecastVars, fetchVars>>

ApiNext == Analyze \/ Charts \/ Trends

SpecApi == ApiInit /\ [][ApiNext]_vars

\* ================================================================
\* Trending discovery (trending_discovery.py).  The clock is counted in
\* ticks of 1/TicksPerHour hour, so that the 0.1 hour floor is one tick.
\* ================================================================
TicksPerHour == 10
LenientMin == 10

\* the clock reading of fetch_trending_posts
FetchClock == 30 * TicksPerHour

\* ages of a post at fetch time: newer than the 0.1 hour floor, at it, above it,
\* half a day, exactly a day, more than a day
Ages == {0, 1, 2, 12 * TicksPerHour, 24 * TicksPerHour, 25 * TicksPerHour}

ChildData(title, score, comments, awards, age) ==
    [title |-> title, subreddit |-> "popular", score |-> score, num_comments |-> comments,
     total_awards_received |-> awards, created_utc |-> FetchClock - age]

ScoringChildren ==
    { ChildData(<<"T", "h", "e", " ", "l", "a", "u", "n", "c", "h">>, sc, c, a, age) :
        sc \in 0..MaxScore, c \in 0..MaxComments, a \in 0..MaxAwards, age \in Ages }

\* the mutant multiplies by the age instead of dividing by it
VelocityTimesAge(post_data, clock) ==
    LET age == clock - post_data.created_utc
        floored == IF age * 10 >= TicksPerHour THEN age * 10 ELSE TicksPerHour
    IN  Reduced((post_data.score + post_data.num_comments * 2) * floored, 10 * TicksPerHour)

\* hours_old = max(age in hours, 0.1); velocity = (score + 2 * num_comments) / hours_old
Velocity(post_data, clock) ==
    LET age == clock - post_data.created_utc
        \* hours_old = floored / (10 * TicksPerHour)
        floored == IF age * 10 >= TicksPerHour THEN age * 10 ELSE TicksPerHour
        engagement_score == post_data.score + post_data.num_comments * 2
    IN  Reduced(engagement_score * 10 * TicksPerHour, floored)

\* the rows of pd.DataFrame(posts_data): label = position in the response, from 0
PostsData(resp, clock) ==
    [i \in 1..Len(resp) |->
        [label |-> i - 1,
         title |-> resp[i].title,
         subreddit |-> resp[i].subreddit,
         score |-> resp[i].score,
         num_comments |-> resp[i].num_comments,
         created_utc |-> resp[i].created_utc,
         awards |-> resp[i].total_awards_received,
         velocity |-> Velocity(resp[i], clock)]]

IsSortedDescBy(df, Key(_)) ==
    \A i \in 1..(Len(df) - 1) : RatLe(Key(df[i + 1]), Key(df[i]))

\* sort_values(key, ascending=False): rows with equal keys in any order
SortValuesDesc(df, Key(_)) ==
    { s \in { [i \in 1..Len(df) |-> df[p[i]]] : p \in Permutations(1..Len(df)) } :
        IsSortedDescBy(s, Key) }

VelocityOf(r) == r.velocity

MinOf(a, b) == IF a <= b THEN a ELSE b

\* the frames fetch_trending_posts can return for a response
fetch_trending_posts(resp, time_window_hours, limit, clock) ==
    IF resp = <<>> THEN {<<>>}
    ELSE LET df == PostsData(resp, clock)
             time_cutoff_tz == clock - time_window_hours * TicksPerHour
             df_filtered == SelectSeq(df, LAMBDA r : r.created_utc >= time_cutoff_tz)
         IN  IF Len(df_filtered) < LenientMin /\ Len(df) >= LenientMin
             THEN \* df.nlargest(min(limit, len(df)), "velocity")
                  { SubSeq(s, 1, MinOf(limit, Len(df))) : s \in SortValuesDesc(df, VelocityOf) }
             ELSE SortValuesDesc(df_filtered, VelocityOf)

\* calculate_trending_score, reading the clock again; the age is not floored here
calculate_trending_score(row, clock) ==
    LET velocity_score == RatMul(row.velocity, Rat(1, 2))
        engagement_score == RatMul(Rat(row.score + row.num_comments * 2, 1), Rat(3, 10))
        awards_score == RatMul(Rat(row.awards * 10, 1), Rat(1, 10))
        \* in ticks; hours_old / 24 = ticks / (24 * TicksPerHour)
        hours_old == clock - row.created_utc
        recency_multiplier ==
            RatMax(Rat(1, 1), Reduced(2 * 24 * TicksPerHour - hours_old, 24 * TicksPerHour))
    IN  RatMul(RatAdd(RatAdd(velocity_score, engagement_score), awards_score),
               recency_multiplier)

TrendingScoreOf(r) == r.trending_score

WithTrendingScore(df, clock) ==
    [i \in 1..Len(df) |->
        [label |-> df[i].label, title |-> df[i].title, subreddit |-> df[i].subreddit,
         score |-> df[i].score, num_comments |-> df[i].num_comments,
         created_utc |-> df[i].created_utc, awards |-> df[i].awards,
         velocity |-> df[i].velocity,
         trending_score |-> calculate_trending_score(df[i], clock)]]

\* the frames get_trending_posts_with_scores can return for a fetched frame
get_trending_posts_with_scores(df, min_score, clock) ==
    IF df = <<>> THEN {<<>>}
    ELSE SortValuesDesc(
             WithTrendingScore(SelectSeq(df, LAMBDA r : r.score >= min_score), clock),
             TrendingScoreOf)

Responses(C) == {<<>>} \cup { <<a>> : a \in C } \cup { <<a, b>> : a \in C, b \in C }

ApiIdle ==
    /\ request = [time_window_hours |-> 1, interval_hours |-> 1, trim_empty_intervals |-> TRUE]
    /\ posts_df = <<>>
    /\ time_cutoff = utcnow - 1
    /\ endpoint = "none"
    /\ ApiNoResult

TrendInit ==
    /\ ApiIdle
    /\ children \in Responses(ScoringChildren)
    /\ score_delay \in 0..MaxDelay
    /\ stage = "start"
    /\ trending_df = <<>>
    /\ scored_df = <<>>
    /\ topic_scores = <<>>
    /\ topics = <<>>
    /\ raised = ""
    /\ topic_request = None

\* fetch_trending_posts(time_window_hours=24, limit=100)
FetchTrendingPosts ==
    /\ stage = "start"
    /\ stage' = "fetched"
    /\ trending_df' \in fetch_trending_posts(children, 24, 100, FetchClock)
    /\ UNCHANGED <<children, score_delay, scored_df, topic_scores, topics, raised, topic_request, apiVars, forecastVars, fetchVars>>

\* get_trending_posts_with_scores(time_window_hours, limit=100, min_score)
GetTrendingPostsWithScores ==
    /\ stage = "start"
    /\ stage' = "scored"
    /\ \E min_score \in 0..MaxScore, time_window_hours \in {24, 48} :
       \E df \in fetch_trending_posts(children, time_window_hours, 100, FetchClock) :
         /\ trending_df' = df
         /\ scored_df' \in get_trending_posts_with_scores(df, min_score, FetchClock + score_delay)
    /\ UNCHANGED <<children, score_delay, topic_scores, topics, raised, topic_request, apiVars, forecastVars, fetchVars>>

TrendNext == FetchTrendingPosts \/ GetTrendingPostsWithScores

SpecTrend == TrendInit /\ [][TrendNext]_vars

\* ================================================================
\* Topic extraction (topic_extractor.py).  A text is a sequence of
\* characters.  The titles hold letters, digits and single spaces, so the
\* word boundary \b of the patterns is the start or the end of a word of the
\* title and every pattern is matched word by word.
\* ================================================================
MaxTopN == 2
MaxTopics == 3
MaxPostCount == 2

UpperCase ==
    <<"A", "B", "C", "D", "E", "F", "G", "H", "I", "J", "K", "L", "M",
      "N", "O", "P", "Q", "R", "S", "T", "U", "V", "W", "X", "Y", "Z">>

LowerCase ==
    <<"a", "b", "c", "d", "e", "f", "g", "h", "i", "j", "k", "l", "m",
      "n", "o", "p", "q", "r", "s", "t", "u", "v", "w", "x", "y", "z">>

Digits == {"0", "1", "2", "3", "4", "5", "6", "7", "8", "9"}

\* string.punctuation, but for the backquote (no TLA+ string holds it)
punctuation ==
    {"!", "\"", "#", "$", "%", "&", "'", "(", ")", "*", "+", ",", "-", ".", "/", ":",
     ";", "<", "=", ">", "?", "@", "[", "\\", "]", "^", "_", "{", "|", "}", "~"}

STOP_WORDS == {
    <<"t", "h", "e">>, <<"a">>, <<"a", "n">>, <<"a", "n", "d">>, <<"o", "r">>,
    <<"b", "u", "t">>, <<"i", "n">>, <<"o", "n">>, <<"a", "t">>, <<"t", "o">>,
    <<"f", "o", "r">>, <<"o", "f">>, <<"w", "i", "t", "h">>, <<"b", "y">>,
    <<"f", "r", "o", "m">>, <<"i", "s">>, <<"a", "r", "e">>, <<"w", "a", "s">>,
    <<"w", "e", "r", "e">>, <<"b", "e">>, <<"b", "e", "e", "n">>,
    <<"b", "e", "i", "n", "g">>, <<"h", "a", "v", "e">>, <<"h", "a", "s">>,
    <<"h", "a", "d">>, <<"d", "o">>, <<"d", "o", "e", "s">>, <<"d", "i", "d">>,
    <<"w", "i", "l", "l">>, <<"w", "o", "u", "l", "d">>, <<"s", "h", "o", "u", "l", "d">>,
    <<"c", "o", "u", "l", "d">>, <<"m", "a", "y">>, <<"m", "i", "g", "h", "t">>,
    <<"m", "u", "s", "t">>, <<"c", "a", "n">>, <<"a", "b", "o", "u", "t">>,
    <<"j", "u", "s", "t">>, <<"t", "h", "i", "s">>, <<"t", "h", "a", "t">>,
    <<"t", "h", "e", "s", "e">>, <<"t", "h", "o", "s", "e">>, <<"t", "h", "e", "r", "e">>,
    <<"h", "e", "r", "e">>, <<"w", "h", "e", "n">>, <<"w", "h", "e", "r", "e">>,
    <<"w", "h", "y">>, <<"h", "o", "w">>, <<"a", "l", "l">>, <<"a", "n", "y">>,
    <<"b", "o", "t", "h">>, <<"e", "a", "c", "h">>, <<"f", "e", "w">>,
    <<"m", "o", "r", "e">>, <<"m", "o", "s", "t">>, <<"o", "t", "h", "e", "r">>,
    <<"s", "o", "m", "e">>, <<"s", "u", "c", "h">>, <<"t", "h", "a", "n">>,
    <<"t", "o", "o">>, <<"v", "e", "r", "y">>, <<"m", "y">>, <<"y", "o", "u", "r">>,
    <<"h", "i", "s">>, <<"h", "e", "r">>, <<"i", "t", "s">>, <<"o", "u", "r">>,
    <<"t", "h", "e", "i", "r">>, <<"w", "h", "a", "t">>, <<"w", "h", "i", "c", "h">>,
    <<"w", "h", "o">>, <<"w", "h", "o", "m">>, <<"w", "h", "o", "s", "e">>, <<"i", "f">>,
    <<"t", "h", "e", "n">>, <<"e", "l", "s", "e">>, <<"s", "o">>, <<"a", "s">>,
    <<"i", "n", "t", "o">>, <<"t", "h", "r", "o", "u", "g", "h">>,
    <<"d", "u", "r", "i", "n", "g">>, <<"b", "e", "f", "o", "r", "e">>,
    <<"a", "f", "t", "e", "r">>, <<"a", "b", "o", "v", "e">>, <<"b", "e", "l", "o", "w">>,
    <<"b", "e", "t", "w", "e", "e", "n">>, <<"u", "n", "d", "e", "r">>,
    <<"a", "g", "a", "i", "n">>, <<"n", "e", "w">>, <<"f", "i", "r", "s", "t">>,
    <<"l", "a", "s", "t">>, <<"l", "o", "n", "g">>, <<"g", "r", "e", "a", "t">>,
    <<"l", "i", "t", "t", "l", "e">>, <<"o", "w", "n">>, <<"s", "a", "m", "e">>,
    <<"g", "e", "t">>, <<"g", "o", "t">>, <<"m", "a", "k", "e">>, <<"m", "a", "d", "e">>,
    <<"k", "n", "o", "w">>, <<"t", "h", "i", "n", "k">>, <<"t", "a", "k", "e">>,
    <<"s", "e", "e">>, <<"c", "o", "m", "e">>, <<"w", "a", "n", "t">>,
    <<"l", "o", "o", "k">>, <<"u", "s", "e">>, <<"f", "i", "n", "d">>,
    <<"g", "i", "v", "e">>, <<"t", "e", "l", "l">>, <<"w", "o", "r", "k">>,
    <<"c", "a", "l", "l">>, <<"t", "r", "y">>, <<"r", "e", "d", "d", "i", "t">>,
    <<"p", "o", "s", "t">>, <<"s", "u", "b">>,
    <<"s", "u", "b", "r", "e", "d", "d", "i", "t">>, <<"c", "o", "m", "m", "e", "n", "t">>,
    <<"t", "h", "r", "e", "a", "d">>
}

\* the alternatives of the first of the TOPIC_PATTERNS
Qualifiers == {<<"P", "r", "o">>, <<"M", "a", "x">>, <<"U", "l", "t", "r", "a">>,
               <<"P", "l", "u", "s">>, <<"M", "i", "n", "i">>, <<"A", "i", "r">>}

\* the alternatives of the second of the TOPIC_PATTERNS
Events == {
    <<"C", "u", "p">>, <<"B", "o", "w", "l">>,
    <<"C", "h", "a", "m", "p", "i", "o", "n", "s", "h", "i", "p">>,
    <<"O", "l", "y", "m", "p", "i", "c", "s">>,
    <<"C", "o", "n", "f", "e", "r", "e", "n", "c", "e">>, <<"S", "u", "m", "m", "i", "t">>
}

IsUpper(c) == \E i \in DOMAIN UpperCase : UpperCase[i] = c
IsLower(c) == \E i \in DOMAIN LowerCase : LowerCase[i] = c
IsDigit(c) == c \in Digits
IsAlpha(c) == IsUpper(c) \/ IsLower(c)
IsAlnum(c) == IsAlpha(c) \/ IsDigit(c)

lower_char(c) ==
    IF IsUpper(c) THEN LowerCase[CHOOSE i \in DOMAIN UpperCase : UpperCase[i] = c] ELSE c

\* str.lower()
lower(text) == IF text = <<>> THEN <<>> ELSE [i \in 1..Len(text) |-> lower_char(text[i])]

\* str.strip(chars)
strip(text, chars) ==
    LET keep == { i \in 1..Len(text) : text[i] \notin chars }
    IN  IF keep = {} THEN <<>> ELSE SubSeq(text, Min(keep), Max(keep))

\* str.split(): the words between the spaces
RECURSIVE split(_)
split(text) ==
    IF text = <<>> THEN <<>>
    ELSE IF Head(text) = " " THEN split(Tail(text))
    ELSE LET n == IF \E i \in 1..Len(text) : text[i] = " "
                  THEN Min({ i \in 1..Len(text) : text[i] = " " })
                  ELSE Len(text) + 1
         IN  <<SubSeq(text, 1, n - 1)>> \o split(SubSeq(text, n, Len(text)))

\* the text of consecutive words of a title
RECURSIVE join(_)
join(words) ==
    IF words = <<>> THEN <<>>
    ELSE IF Len(words) = 1 THEN words[1]
    ELSE words[1] \o <<" ">> \o join(Tail(words))

\* needle in text
Contains(text, needle) ==
    \E i \in 0..(Len(text) - Len(needle)) : SubSeq(text, i + 1, i + Len(needle)) = needle

IsPrefix(p, s) == Len(p) <= Len(s) /\ SubSeq(s, 1, Len(p)) = p

\* (?:\d+|Pro|Max|Ultra|Plus|Mini|Air)* matches the whole of s
RECURSIVE NumbersOrQualifiers(_)
NumbersOrQualifiers(s) ==
    \/ s = <<>>
    \/ IsDigit(s[1]) /\ NumbersOrQualifiers(Tail(s))
    \/ \E w \in Qualifiers :
         IsPrefix(w, s) /\ NumbersOrQualifiers(SubSeq(s, Len(w) + 1, Len(s)))

\* [A-Z][a-z]+ matches the whole word
IsTitleCase(w) == Len(w) >= 2 /\ IsUpper(w[1]) /\ \A j \in 2..Len(w) : IsLower(w[j])

\* the number of consecutive title-case words from word i on
RECURSIVE TitleCaseRun(_, _)
TitleCaseRun(words, i) ==
    IF i > Len(words) \/ ~IsTitleCase(words[i]) THEN 0 ELSE 1 + TitleCaseRun(words, i + 1)

\* (?:[A-Z][a-z]+)+ matches the whole of s
RECURSIVE CapitalizedParts(_)
CapitalizedParts(s) ==
    /\ Len(s) >= 2
    /\ IsUpper(s[1])
    /\ \E k \in 2..Len(s) :
         /\ \A j \in 2..k : IsLower(s[j])
         /\ k = Len(s) \/ CapitalizedParts(SubSeq(s, k + 1, Len(s)))

\* Each pattern gives the number of words of its match starting at word i, 0 when
\* it does not match there.
\* \b([A-Z][a-zA-Z0-9]*\s*(?:\d+|Pro|Max|Ultra|Plus|Mini|Air)+)\b : greedy, so a word
\* followed by a word of numbers and qualifiers before a word ending in them
ProductNames(words, i) ==
    LET w == words[i]
    IN  IF ~(IsUpper(w[1]) /\ \A j \in 2..Len(w) : IsAlnum(w[j])) THEN 0
        ELSE IF i < Len(words) /\ NumbersOrQualifiers(words[i + 1]) THEN 2
        ELSE IF \E k \in 1..(Len(w) - 1) : NumbersOrQualifiers(SubSeq(w, k + 1, Len(w)))
             THEN 1
        ELSE 0

\* \b([A-Z][a-zA-Z]*\s+(?:Cup|Bowl|Championship|Olympics|Conference|Summit)\s+\d{4})\b
EventNames(words, i) ==
    IF /\ i + 2 <= Len(words)
       /\ IsUpper(words[i][1])
       /\ \A j \in 2..Len(words[i]) : IsAlpha(words[i][j])
       /\ words[i + 1] \in Events
       /\ Len(words[i + 2]) = 4
       /\ \A j \in 1..4 : IsDigit(words[i + 2][j])
    THEN 3
    ELSE 0

\* \b([A-Z][a-z]+(?:\s+[A-Z][a-z]+)*)\b
Brands(words, i) == TitleCaseRun(words, i)

\* \b([A-Z]{2,}(?:[A-Z][a-z]+)+)\b
Hashtags(words, i) ==
    LET w == words[i]
    IN  IF \E m \in 2..(Len(w) - 1) :
              /\ \A j \in 1..m : IsUpper(w[j])
              /\ CapitalizedParts(SubSeq(w, m + 1, Len(w)))
        THEN 1
        ELSE 0

\* \b([A-Z][a-z]+(?:\s+[A-Z][a-z]+){1,3})\b
title_case_pattern(words, i) ==
    IF TitleCaseRun(words, i) >= 2 THEN MinOf(TitleCaseRun(words, i), 4) ELSE 0

\* \b[A-Z][a-zA-Z0-9]+\b
CapitalizedWords(words, i) ==
    LET w == words[i]
    IN  IF Len(w) >= 2 /\ IsUpper(w[1]) /\ \A j \in 2..Len(w) : IsAlnum(w[j]) THEN 1 ELSE 0

\* re.findall(pattern, text): the matches from left to right, the scan resuming
\* behind each match
findall(pattern(_, _), text) ==
    LET words == split(text)
        from[i \in 1..(Len(words) + 1)] ==
            IF i > Len(words) THEN <<>>
            ELSE IF pattern(words, i) > 0
                 THEN <<join(SubSeq(words, i, i + pattern(words, i) - 1))>>
                          \o from[i + pattern(words, i)]
            ELSE from[i + 1]
    IN  from[1]

extract_keywords_from_text(text, min_length) ==
    LET keywords == findall(ProductNames, text) \o findall(EventNames, text)
                        \o findall(Brands, text) \o findall(Hashtags, text)
                        \o findall(title_case_pattern, text)
                        \o findall(CapitalizedWords, text)
        stripped == [k \in 1..Len(keywords) |-> strip(keywords[k], punctuation)]
    IN  SelectSeq(stripped, LAMBDA kw : Len(kw) >= min_length /\ lower(kw) \notin STOP_WORDS)

\* titles: one word; a product in a phrase; stop word only; product with a
\* qualifier; an event
TopicTitles == {
    <<"T", "e", "s", "l", "a">>,
    <<"T", "e", "s", "l", "a", " ", "M", "o", "d", "e", "l", " ", "3">>,
    <<"T", "h", "e", " ", "l", "a", "u", "n", "c", "h">>,
    <<"P", "S", "5", " ", "P", "r", "o">>,
    <<"W", "o", "r", "l", "d", " ", "C", "u", "p", " ", "2", "0", "2", "6">>
}

\* extract_keywords_from_text(title) of each title, computed once
title_keywords == [title \in TopicTitles |-> extract_keywords_from_text(title, 3)]

\* the (keyword, idx) pairs of the rows from row i on; idx is the row's label
RECURSIVE KeywordRows(_, _)
KeywordRows(df, i) ==
    IF i > Len(df) THEN <<>>
    ELSE LET keywords == title_keywords[df[i].title]
         IN  [k \in 1..Len(keywords) |-> [kw |-> keywords[k], idx |-> df[i].label]]
                 \o KeywordRows(df, i + 1)

all_keywords(rows) == [k \in 1..Len(rows) |-> rows[k].kw]

\* keyword_posts[keyword]
keyword_posts(rows, keyword) ==
    LET hits == SelectSeq(rows, LAMBDA r : r.kw = keyword)
    IN  [k \in 1..Len(hits) |-> hits[k].idx]

\* Counter(all_keywords).most_common(n): keys in order of first appearance, sorted by
\* non-increasing count, equal counts keeping their order
most_common(keywords, n) ==
    LET counts == value_counts(keywords)
    IN  SubSeq(counts, 1, MinOf(n, Len(counts)))

\* DataFrame.iloc[post_indices] takes rows by position, from 0
iloc(df, post_indices) ==
    [k \in 1..Len(post_indices) |-> df[post_indices[k] + 1]]

\* the positional indexers are out of bounds
IndexError(df, post_indices) ==
    \E k \in 1..Len(post_indices) : post_indices[k] >= Len(df)

RECURSIVE SumRat(_)
SumRat(s) == IF s = <<>> THEN Rat(0, 1) ELSE RatAdd(Head(s), SumRat(Tail(s)))

\* round(x, 2)
round2(x) == Reduced(RoundHalfEven(x.n, x.d, 100), 100)

\* one entry of topic_scores, from related_posts = posts_df.iloc[post_indices]
TopicScore(keyword, count, related_posts) ==
    LET total_score == SumSeq([k \in 1..Len(related_posts) |-> related_posts[k].score])
        total_comments ==
            SumSeq([k \in 1..Len(related_posts) |-> related_posts[k].num_comments])
        avg_velocity ==
            RatMul(SumRat([k \in 1..Len(related_posts) |-> related_posts[k].velocity]),
                   Rat(1, Len(related_posts)))
        topic_score ==
            RatAdd(RatAdd(RatAdd(Rat(count * 100, 1), RatMul(Rat(total_score, 1), Rat(1, 2))),
                          Rat(total_comments * 2, 1)),
                   RatMul(avg_velocity, Rat(10, 1)))
        subreddits == Unique([k \in 1..Len(related_posts) |-> related_posts[k].subreddit])
    IN  [topic |-> keyword,
         post_count |-> count,
         total_score |-> total_score,
         total_comments |-> total_comments,
         avg_velocity |-> round2(avg_velocity),
         topic_score |-> round2(topic_score),
         subreddits |-> SubSeq(subreddits, 1, MinOf(5, Len(subreddits))),
         subreddit_count |-> Len(subreddits)]

RECURSIVE InsertByTopicScore(_, _)
InsertByTopicScore(sorted, e) ==
    IF sorted = <<>> THEN <<e>>
    ELSE IF RatLe(e.topic_score, Head(sorted).topic_score)
         THEN <<Head(sorted)>> \o InsertByTopicScore(Tail(sorted), e)
    ELSE <<e>> \o sorted

\* list.sort(key=topic_score, reverse=True): equal scores keep their order
RECURSIVE SortByTopicScore(_)
SortByTopicScore(s) ==
    IF s = <<>> THEN <<>>
    ELSE InsertByTopicScore(SortByTopicScore(SubSeq(s, 1, Len(s) - 1)), s[Len(s)])

are_topics_similar(topic1, topic2) ==
    LET t1_lower == lower(topic1)
        t2_lower == lower(topic2)
        t1_words == split(t1_lower)
        t2_words == split(t2_lower)
    IN  \/ Contains(t2_lower, t1_lower)
        \/ Contains(t1_lower, t2_lower)
        \/ /\ Len(t1_words) >= 2
           /\ Len(t2_words) >= 2
           /\ t1_words[1] = t2_words[1]
           /\ t1_words[2] = t2_words[2]

Range(s) == { s[i] : i \in 1..Len(s) }

\* the mutant adds the velocities up instead of averaging them
merge_topicsSummedVelocity(similar) ==
    LET topic_names == [k \in 1..Len(similar) |-> similar[k].topic]
        longest == CHOOSE k \in 1..Len(similar) :
                       /\ \A j \in 1..Len(similar) : Len(topic_names[j]) <= Len(topic_names[k])
                       /\ \A j \in 1..(k - 1) : Len(topic_names[j]) < Len(topic_names[k])
        all_subreddits == UNION { { similar[k].subreddits[i] : i \in 1..Len(similar[k].subreddits) } :
                                    k \in 1..Len(similar) }
    IN  [topic |-> topic_names[longest],
         variants |-> IF Len(topic_names) > 1 THEN Some(topic_names) ELSE None,
         post_count |-> SumSeq([k \in 1..Len(similar) |-> similar[k].post_count]),
         total_score |-> SumSeq([k \in 1..Len(similar) |-> similar[k].total_score]),
         total_comments |-> SumSeq([k \in 1..Len(similar) |-> similar[k].total_comments]),
         avg_velocity |-> SumRat([k \in 1..Len(similar) |-> similar[k].avg_velocity]),
         topic_score |-> SumRat([k \in 1..Len(similar) |-> similar[k].topic_score]),
         subreddits |-> all_subreddits,
         subreddit_count |-> Cardinality(all_subreddits)]

\* list(set(...)) has no fixed order: the merged topic keeps the set
merge_topics(similar) ==
    LET topic_names == [k \in 1..Len(similar) |-> similar[k].topic]
        \* max(topic_names, key=len): the first of the longest names
        longest == CHOOSE k \in 1..Len(similar) :
                       /\ \A j \in 1..Len(similar) : Len(topic_names[j]) <= Len(topic_names[k])
                       /\ \A j \in 1..(k - 1) : Len(topic_names[j]) < Len(topic_names[k])
        all_subreddits == UNION { Range(similar[k].subreddits) : k \in 1..Len(similar) }
    IN  [topic |-> topic_names[longest],
         variants |-> IF Len(topic_names) > 1 THEN Some(topic_names) ELSE None,
         post_count |-> SumSeq([k \in 1..Len(similar) |-> similar[k].post_count]),
         total_score |-> SumSeq([k \in 1..Len(similar) |-> similar[k].total_score]),
         total_comments |-> SumSeq([k \in 1..Len(similar) |-> similar[k].total_comments]),
         avg_velocity |->
             RatMul(SumRat([k \in 1..Len(similar) |-> similar[k].avg_velocity]),
                    Rat(1, Len(similar))),
         topic_score |-> SumRat([k \in 1..Len(similar) |-> similar[k].topic_score]),
         subreddits |-> all_subreddits,
         subreddit_count |-> Cardinality(all_subreddits)]

\* the mutant does not mark the topics it takes into a group as used
FindSimilarUnmarked(topic_list, topic_name, j, similar, used_topics) ==
    [similar |-> similar
                   \o SelectSeq(topic_list,
                                LAMBDA o : /\ o.topic \notin used_topics
                                           /\ topic_name # o.topic
                                           /\ are_topics_similar(topic_name, o.topic)),
     used_topics |-> used_topics]

\* the inner loop of group_similar_topics from other_topic = topic_list[j] on
RECURSIVE FindSimilar(_, _, _, _, _)
FindSimilar(topic_list, topic_name, j, similar, used_topics) ==
    IF j > Len(topic_list) THEN [similar |-> similar, used_topics |-> used_topics]
    ELSE IF topic_list[j].topic \in used_topics
         THEN FindSimilar(topic_list, topic_name, j + 1, similar, used_topics)
    ELSE IF /\ topic_name # topic_list[j].topic
            /\ are_topics_similar(topic_name, topic_list[j].topic)
         THEN FindSimilar(topic_list, topic_name, j + 1, Append(similar, topic_list[j]),
                          used_topics \cup {topic_list[j].topic})
    ELSE FindSimilar(topic_list, topic_name, j + 1, similar, used_topics)

\* the outer loop of group_similar_topics from topic = topic_list[i] on
RECURSIVE GroupFrom(_, _, _, _)
GroupFrom(topic_list, i, grouped, used_topics) ==
    IF i > Len(topic_list) THEN grouped
    ELSE IF topic_list[i].topic \in used_topics
         THEN GroupFrom(topic_list, i + 1, grouped, used_topics)
    ELSE LET found == FindSimilar(topic_list, topic_list[i].topic, 1, <<topic_list[i]>>,
                                  used_topics)
             entry == IF Len(found.similar) > 1 THEN merge_topics(found.similar)
                      ELSE topic_list[i]
         IN  GroupFrom(topic_list, i + 1, Append(grouped, entry),
                       found.used_topics \cup {topic_list[i].topic})

group_similar_topics(topic_list) == GroupFrom(topic_list, 1, <<>>, {})

\* lines 147 to 153, from the unsorted topic_scores
SortGroupReturn(scores, top_n) ==
    [raised |-> "",
     topic_scores |-> SortByTopicScore(scores),
     grouped_topics |->
         SubSeq(group_similar_topics(SortByTopicScore(scores)), 1,
                MinOf(top_n, Len(group_similar_topics(SortByTopicScore(scores)))))]

\* lines 112 to 153, from the (keyword, idx) pairs and keyword_counts.most_common
ScoreCandidates(df, top_n, rows, candidates) ==
    IF \E c \in 1..Len(candidates) : IndexError(df, keyword_posts(rows, candidates[c].key))
    THEN [raised |-> "IndexError", topic_scores |-> <<>>, grouped_topics |-> <<>>]
    ELSE SortGroupReturn([c \in 1..Len(candidates) |->
                             TopicScore(candidates[c].key, candidates[c].count,
                                        iloc(df, keyword_posts(rows, candidates[c].key)))],
                         top_n)

\* lines 109 to 153, from the (keyword, idx) pairs
CountKeywords(df, top_n, rows) ==
    ScoreCandidates(df, top_n, rows, most_common(all_keywords(rows), top_n * 3))

\* [raised, topic_scores after the sort, the returned list]
extract_topics_from_posts(df, top_n) ==
    IF df = <<>> THEN [raised |-> "", topic_scores |-> <<>>, grouped_topics |-> <<>>]
    ELSE CountKeywords(df, top_n, KeywordRows(df, 1))

\* round(x, 1)
round1(x) == Reduced(RoundHalfEven(x.n, x.d, 10), 10)

\* the topic with its rank and its trending_strength, relative to max_score
WithRank(topic, rank, max_score) ==
    [f \in DOMAIN topic \cup {"rank", "trending_strength"} |->
        IF f = "rank" THEN rank
        ELSE IF f = "trending_strength"
             THEN round1(RatMul(Reduced(topic.topic_score.n * max_score.d,
                                        topic.topic_score.d * max_score.n),
                                Rat(100, 1)))
        ELSE topic[f]]

\* lines 277 to 285: filtered_topics[:top_n] with rank and trending_strength; max_score
\* is the topic_score of the first of the filtered topics
RankTopics(filtered_topics, top_n) ==
    [rank \in 1..MinOf(top_n, Len(filtered_topics)) |->
        WithRank(filtered_topics[rank], rank, filtered_topics[1].topic_score)]

\* lines 274 to 285, from the result of extract_topics_from_posts
FilterAndRank(extracted, top_n, min_posts) ==
    IF extracted.raised # ""
    THEN [raised |-> extracted.raised, topic_scores |-> <<>>, topics |-> <<>>]
    ELSE [raised |-> "",
          topic_scores |-> extracted.topic_scores,
          topics |-> RankTopics(SelectSeq(extracted.grouped_topics,
                                          LAMBDA t : t.post_count >= min_posts),
                                top_n)]

\* [raised, topic_scores of extract_topics_from_posts, the returned list]
extract_top_trending_topics(df, top_n, min_posts) ==
    FilterAndRank(extract_topics_from_posts(df, top_n * 2), top_n, min_posts)

\* ages at fetch time: 0.1 hour and older than a window of 24 hours
TopicAges == {1, 25 * TicksPerHour}

TopicChildren ==
    { ChildData(title, sc, c, 0, age) :
        title \in TopicTitles, sc \in 0..MaxScore, c \in 0..MaxComments, age \in TopicAges }

TopicInit ==
    /\ ApiIdle
    /\ children \in Responses(TopicChildren)
    /\ score_delay = 0
    /\ stage = "start"
    /\ trending_df = <<>>
    /\ scored_df = <<>>
    /\ topic_scores = <<>>
    /\ topics = <<>>
    /\ raised = ""
    /\ topic_request = None

\* extract_topics_from_posts(fetch_trending_posts(time_window_hours, 100), top_n)
ExtractTopicsFromPosts ==
    /\ stage = "start"
    /\ stage' = "extracted"
    /\ \E top_n \in 1..MaxTopN, time_window_hours \in {24, 48} :
       \E df \in fetch_trending_posts(children, time_window_hours, 100, FetchClock) :
       \E result \in {extract_topics_from_posts(df, top_n)} :
         /\ trending_df' = df
         /\ raised' = result.raised
         /\ topic_scores' = result.topic_scores
         /\ topics' = result.grouped_topics
    /\ UNCHANGED <<children, score_delay, scored_df, topic_request, apiVars, forecastVars, fetchVars>>

\* extract_top_trending_topics(fetch_trending_posts(time_window_hours, 100), top_n,
\* min_posts), as the trending endpoint calls it
ExtractTopTrendingTopics ==
    /\ stage = "start"
    /\ stage' = "ranked"
    /\ \E top_n \in 1..MaxTopN, min_posts \in 1..MaxPostCount, time_window_hours \in {24, 48} :
       \E df \in fetch_trending_posts(children, time_window_hours, 100, FetchClock) :
       \E result \in {extract_top_trending_topics(df, top_n, min_posts)} :
         /\ trending_df' = df
         /\ topic_request' = [top_n |-> top_n, min_posts |-> min_posts]
         /\ raised' = result.raised
         /\ topic_scores' = result.topic_scores
         /\ topics' = result.topics
    /\ UNCHANGED <<children, score_delay, scored_df, apiVars, forecastVars, fetchVars>>

TopicNext == ExtractTopicsFromPosts \/ ExtractTopTrendingTopics

SpecTopic == TopicInit /\ [][TopicNext]_vars

\* ------------------------------------------------ group_similar_topics alone
TopicNames == {
    <<"T", "e", "s", "l", "a">>,
    <<"M", "o", "d", "e", "l">>,
    <<"T", "e", "s", "l", "a", " ", "M", "o", "d", "e", "l">>,
    <<"M", "o", "d", "e", "l", " ", "3">>,
    <<"P", "S", "5", " ", "P", "r", "o">>
}

\* the entry of topic_scores for a keyword found post_count times in posts without
\* score, comments or velocity
CandidateTopic(name, post_count) ==
    [topic |-> name,
     post_count |-> post_count,
     total_score |-> 0,
     total_comments |-> 0,
     avg_velocity |-> Rat(0, 1),
     topic_score |-> Rat(100 * post_count, 1),
     subreddits |-> <<"popular">>,
     subreddit_count |-> 1]

\* the entry of topic_scores for a keyword found post_count times in posts of score
\* 1 with one comment and velocity 0.5, of two subreddits
EngagedTopic(name, post_count) ==
    [topic |-> name,
     post_count |-> post_count,
     total_score |-> post_count,
     total_comments |-> post_count,
     avg_velocity |-> Rat(1, 2),
     topic_score |-> Reduced(200 * post_count + post_count + 4 * post_count + 10, 2),
     subreddits |-> <<"technology", "popular">>,
     subreddit_count |-> 2]

CandidateTopics ==
    { CandidateTopic(name, n) : name \in TopicNames, n \in 1..MaxPostCount }
        \cup { EngagedTopic(name, n) : name \in TopicNames, n \in 1..MaxPostCount }

\* the lists of n candidates with distinct names, sorted by non-increasing topic_score
RECURSIVE TopicListsOfLen(_)
TopicListsOfLen(n) ==
    IF n = 0 THEN {<<>>}
    ELSE { Append(p[1], p[2]) :
             p \in { q \in TopicListsOfLen(n - 1) \X CandidateTopics :
                       /\ \A i \in 1..Len(q[1]) : q[1][i].topic # q[2].topic
                       /\ q[1] # <<>> =>
                            RatLe(q[2].topic_score, q[1][Len(q[1])].topic_score) } }

\* lists as extract_topics_from_posts hands them over: one entry per keyword, sorted
\* by non-increasing topic_score
TopicLists == UNION { TopicListsOfLen(n) : n \in 0..MaxTopics }

\* "iPhone 17" with 5 posts and "iPhone 17 Pro" with 3 posts
ScenarioTopics ==
    <<CandidateTopic(<<"i", "P", "h", "o", "n", "e", " ", "1", "7">>, 5),
      CandidateTopic(<<"i", "P", "h", "o", "n", "e", " ", "1", "7", " ", "P", "r", "o">>, 3)>>

GroupInit ==
    /\ ApiIdle
    /\ children = <<>>
    /\ score_delay = 0
    /\ stage = "start"
    /\ trending_df = <<>>
    /\ scored_df = <<>>
    /\ topic_scores \in TopicLists \cup {ScenarioTopics}
    /\ topics = <<>>
    /\ raised = ""
    /\ topic_request = None

GroupSimilarTopics ==
    /\ stage = "start"
    /\ stage' = "grouped"
    /\ topics' = group_similar_topics(topic_scores)
    /\ UNCHANGED <<children, score_delay, trending_df, scored_df, topic_scores, raised,
                   topic_request, apiVars, forecastVars, fetchVars>>

GroupNext == GroupSimilarTopics

SpecGroup == GroupInit /\ [][GroupNext]_vars

\* ================================================================
\* Sentiment forecaster (sentiment_predictor.py)
\*
\* The arithmetic is exact.  Where binary floating point leaves a value
\* a hair off a decimal tie, round() may give either neighbour; the
\* model gives the even one, and no property below rests on the choice.
\* ================================================================
MaxHoursAhead == 2
MaxHour == 4

window_size == 5

RatNeg(a) == Rat(-a.n, a.d)
RatSub(a, b) == RatAdd(a, RatNeg(b))
RatDivInt(a, k) == Reduced(a.n, a.d * k)

\* Series.mean()
Mean(s) == RatDivInt(SumRat(s), Len(s))

\* Series.head(n) and Series.tail(n)
head(s, n) == SubSeq(s, 1, MinOf(n, Len(s)))
tail(s, n) == SubSeq(s, Len(s) - MinOf(n, Len(s)) + 1, Len(s))

Column(df, name) == [k \in 1..Len(df) |-> df[k][name]]

\* round(x, 3)
round3(x) == Reduced(RoundHalfEven(x.n, x.d, 1000), 1000)

\* the mutant lets the value through
clipNothing(x) == x

\* np.clip(x, -1, 1)
clip(x) ==
    IF RatLt(x, Rat(-1, 1)) THEN Rat(-1, 1)
    ELSE IF RatLt(Rat(1, 1), x) THEN Rat(1, 1)
    ELSE x

\* the label of a clipped prediction
overall_sentiment(pred_avg_sentiment) ==
    IF RatLt(Rat(1, 10), pred_avg_sentiment) THEN "positive"
    ELSE IF RatLt(pred_avg_sentiment, Rat(-1, 10)) THEN "negative"
    ELSE "neutral"

\* int(hours_ahead / interval_hours), both positive
num_intervals(hours_ahead, interval_hours) == hours_ahead \div interval_hours

\* LinearRegression().fit(X, y) for one feature: the least squares line,
\* in exact arithmetic.  X holds at least two distinct whole hours.
LinearRegression(X, y) ==
    LET n == Len(X)
        sum_x == SumSeq(X)
        sum_xx == SumSeq([k \in 1..n |-> X[k] * X[k]])
        sum_y == SumRat(y)
        sum_xy == SumRat([k \in 1..n |-> RatMul(Rat(X[k], 1), y[k])])
        coef == RatDivInt(RatSub(RatMul(Rat(n, 1), sum_xy), RatMul(Rat(sum_x, 1), sum_y)),
                          n * sum_xx - sum_x * sum_x)
    IN  [coef |-> coef,
         intercept |-> RatDivInt(RatSub(sum_y, RatMul(coef, Rat(sum_x, 1))), n)]

\* model.predict([[time_numeric]])[0]
predict(model, time_numeric) ==
    RatAdd(model.intercept, RatMul(model.coef, Rat(time_numeric, 1)))

\* Series.var(): the sample variance (ddof = 1) of two or more values
Variance(s) ==
    LET m == Mean(s)
    IN  RatDivInt(SumRat([k \in 1..Len(s) |-> RatMul(RatSub(s[k], m), RatSub(s[k], m))]),
                  Len(s) - 1)

\* 100 * sqrt(v) to the nearest whole number, capped at 100
StdHundredths(v) ==
    Cardinality({ j \in 1..100 : (2 * j - 1) * (2 * j - 1) * v.d <= 40000 * v.n })

\* round(max(0.3, min(0.95, 1 - recent_variance)), 2) where recent_variance
\* is the standard deviation whose square is v: 0.3 and 0.95 are whole
\* hundredths, so the rounding commutes with the two limits
LinearConfidence(v) ==
    LET c == 100 - StdHundredths(v)
    IN  Reduced(IF c < 30 THEN 30 ELSE IF c > 95 THEN 95 ELSE c, 100)

\* one pass of the loop of predict_sentiment_linear
LinearPoint(avg_model, ratio_model, first_timestamp, last_timestamp, confidence, interval_hours, i) ==
    LET future_timestamp == last_timestamp + interval_hours * i
        time_numeric == future_timestamp - first_timestamp
        pred_avg_sentiment == clip(predict(avg_model, time_numeric))
        pred_sentiment_ratio == clip(predict(ratio_model, time_numeric))
    IN  [timestamp |-> future_timestamp,
         hours_ahead |-> interval_hours * i,
         predicted_sentiment_score |-> round3(pred_avg_sentiment),
         predicted_sentiment_ratio |-> round3(pred_sentiment_ratio),
         predicted_sentiment |-> overall_sentiment(pred_avg_sentiment),
         confidence |-> confidence]

LinearPoints(avg_model, ratio_model, first_timestamp, last_timestamp, confidence, n, interval_hours) ==
    [i \in 1..n |-> LinearPoint(avg_model, ratio_model, first_timestamp, last_timestamp,
                                confidence, interval_hours, i)]

LinearFit(trend, training_data, hours_ahead, interval_hours) ==
    LET first_timestamp == training_data[1].timestamp
        X == [k \in 1..Len(training_data) |-> training_data[k].timestamp - first_timestamp]
    IN  LinearPoints(LinearRegression(X, Column(training_data, "avg_sentiment")),
                     LinearRegression(X, Column(training_data, "sentiment_ratio")),
                     first_timestamp,
                     trend[Len(trend)].timestamp,
                     LinearConfidence(Variance(tail(Column(training_data, "avg_sentiment"), 5))),
                     num_intervals(hours_ahead, interval_hours),
                     interval_hours)

WithPosts(trend) == SelectSeq(trend, LAMBDA r : r.total_posts > 0)

predict_sentiment_linear(trend, training_data, hours_ahead, interval_hours) ==
    IF Len(trend) < 3 THEN <<>>
    ELSE IF Len(training_data) < 2 THEN <<>>
    ELSE LinearFit(trend, training_data, hours_ahead, interval_hours)

\* the mutant grows with the horizon
RECURSIVE decay_factorGrowing(_)
decay_factorGrowing(i) ==
    IF i = 0 THEN Rat(1, 1) ELSE RatMul(Rat(20, 17), decay_factorGrowing(i - 1))

\* 0.85 ** i
RECURSIVE decay_factor(_)
decay_factor(i) == IF i = 0 THEN Rat(1, 1) ELSE RatMul(Rat(17, 20), decay_factor(i - 1))

\* one pass of the loop of predict_sentiment_moving_average
MovingAveragePoint(recent_avg_sentiment, recent_ratio, trend_rate, last_timestamp, interval_hours, i) ==
    LET step == RatMul(RatMul(trend_rate, Rat(i, 1)), decay_factor(i))
        pred_avg_sentiment == clip(RatAdd(recent_avg_sentiment, step))
        pred_sentiment_ratio == clip(RatAdd(recent_ratio, RatMul(step, Rat(1, 2))))
    IN  [timestamp |-> last_timestamp + interval_hours * i,
         hours_ahead |-> interval_hours * i,
         predicted_sentiment_score |-> round3(pred_avg_sentiment),
         predicted_sentiment_ratio |-> round3(pred_sentiment_ratio),
         predicted_sentiment |-> overall_sentiment(pred_avg_sentiment),
         confidence |-> round2(RatMul(Rat(17, 20), decay_factor(i)))]

MovingAveragePoints(recent_avg_sentiment, recent_ratio, trend_rate, last_timestamp, n, interval_hours) ==
    [i \in 1..n |-> MovingAveragePoint(recent_avg_sentiment, recent_ratio, trend_rate,
                                       last_timestamp, interval_hours, i)]

\* the mutant divides by the nominal window
trend_rate_ofWindowSize(recent) ==
    IF Len(recent) >= 2
    THEN RatDivInt(RatSub(Mean(tail(recent, Len(recent) \div 2)),
                          Mean(head(recent, Len(recent) \div 2))),
                   window_size)
    ELSE Rat(0, 1)

\* (second_half mean - first_half mean) / len(recent_data)
trend_rate_of(recent) ==
    IF Len(recent) >= 2
    THEN RatDivInt(RatSub(Mean(tail(recent, Len(recent) \div 2)),
                          Mean(head(recent, Len(recent) \div 2))),
                   Len(recent))
    ELSE Rat(0, 1)

MovingAverageFit(trend, recent_data, hours_ahead, interval_hours) ==
    MovingAveragePoints(Mean(Column(recent_data, "avg_sentiment")),
                        Mean(Column(recent_data, "sentiment_ratio")),
                        trend_rate_of(Column(recent_data, "avg_sentiment")),
                        trend[Len(trend)].timestamp,
                        num_intervals(hours_ahead, interval_hours),
                        interval_hours)

predict_sentiment_moving_average(trend, data_with_posts, hours_ahead, interval_hours) ==
    IF Len(trend) < 2 THEN <<>>
    ELSE IF Len(data_with_posts) < 2 THEN <<>>
    ELSE MovingAverageFit(trend, tail(data_with_posts, window_size), hours_ahead, interval_hours)

\* the mutant keeps the moving-average confidence instead of the mean
HybridPointOwnConfidence(lp, mp) ==
    [timestamp |-> lp.timestamp,
     hours_ahead |-> lp.hours_ahead,
     predicted_sentiment_score |->
         round3(RatDivInt(RatAdd(lp.predicted_sentiment_score, mp.predicted_sentiment_score), 2)),
     predicted_sentiment_ratio |->
         round3(RatDivInt(RatAdd(lp.predicted_sentiment_ratio, mp.predicted_sentiment_ratio), 2)),
     predicted_sentiment |-> lp.predicted_sentiment,
     confidence |-> mp.confidence]

\* one pass of the zip of the hybrid method
HybridPoint(lp, mp) ==
    [timestamp |-> lp.timestamp,
     hours_ahead |-> lp.hours_ahead,
     predicted_sentiment_score |->
         round3(RatDivInt(RatAdd(lp.predicted_sentiment_score, mp.predicted_sentiment_score), 2)),
     predicted_sentiment_ratio |->
         round3(RatDivInt(RatAdd(lp.predicted_sentiment_ratio, mp.predicted_sentiment_ratio), 2)),
     predicted_sentiment |-> lp.predicted_sentiment,
     confidence |-> round2(RatDivInt(RatAdd(lp.confidence, mp.confidence), 2))]

\* the hybrid branch: the zip when both lists hold points, else
\* linear_pred or ma_pred
Hybrid(linear, ma) ==
    IF linear # <<>> /\ ma # <<>>
    THEN [k \in 1..MinOf(Len(linear), Len(ma)) |-> HybridPoint(linear[k], ma[k])]
    ELSE IF linear # <<>> THEN linear ELSE ma

historical_summary_of(df, data_with_posts) ==
    [total_posts_analyzed |-> Len(df),
     time_range_hours |-> Max(TimesOf(df)) - Min(TimesOf(df)),
     current_sentiment |->
         IF Len(data_with_posts) > 0
         THEN [score |-> round3(data_with_posts[Len(data_with_posts)].avg_sentiment),
               ratio |-> round3(data_with_posts[Len(data_with_posts)].sentiment_ratio)]
         ELSE [score |-> Rat(0, 1), ratio |-> Rat(0, 1)],
     average_sentiment |->
         [score |-> round3(Mean(Column(data_with_posts, "avg_sentiment"))),
          ratio |-> round3(Mean(Column(data_with_posts, "sentiment_ratio")))],
     trend |->
         IF Len(data_with_posts) >= 2
            /\ RatLt(data_with_posts[1].avg_sentiment,
                     data_with_posts[Len(data_with_posts)].avg_sentiment)
         THEN "increasing"
         ELSE IF Len(data_with_posts) >= 2 THEN "decreasing" ELSE "stable"]

PredictionMethods == {"linear", "moving_average", "hybrid"}

\* the part of predict_sentiment after the two early returns
Forecast(df, trend, data_with_posts, hours_ahead, interval_hours, method) ==
    LET linear == IF method \in {"linear", "hybrid"}
                  THEN predict_sentiment_linear(trend, data_with_posts, hours_ahead, interval_hours)
                  ELSE <<>>
        ma == IF method \in {"moving_average", "hybrid"}
              THEN predict_sentiment_moving_average(trend, data_with_posts, hours_ahead,
                                                    interval_hours)
              ELSE <<>>
    IN  [linear_pred |-> linear,
         ma_pred |-> ma,
         result |-> [predictions |-> IF method = "linear" THEN linear
                                     ELSE IF method = "moving_average" THEN ma
                                     ELSE Hybrid(linear, ma),
                     historical_summary |-> historical_summary_of(df, data_with_posts),
                     prediction_method |-> method,
                     interval_hours |-> interval_hours]]

RemoveAt(s, i) == SubSeq(s, 1, i - 1) \o SubSeq(s, i + 1, Len(s))

\* every arrangement of df by rising created_utc, built from its earliest
\* rows on: the orders an unstable sort can give
RECURSIVE SortsByTime(_)
SortsByTime(df) ==
    IF df = <<>> THEN {<<>>}
    ELSE UNION { { <<df[i]>> \o rest : rest \in SortsByTime(RemoveAt(df, i)) } :
                   i \in { k \in 1..Len(df) : df[k].created_utc = Min(TimesOf(df)) } }

\* df.sort_values('created_datetime')
prepare_time_series_data(df) == SortsByTime(df)

\* the locals linear_pred and ma_pred, and the returned dictionary
predict_sentiment(df, trend, hours_ahead, interval_hours, method) ==
    IF df = <<>>
    THEN [linear_pred |-> <<>>, ma_pred |-> <<>>,
          result |-> [predictions |-> <<>>, historical_summary |-> <<>>,
                      error |-> "No data available for prediction"]]
    ELSE IF Len(trend) < 2
    THEN [linear_pred |-> <<>>, ma_pred |-> <<>>,
          result |-> [predictions |-> <<>>, historical_summary |-> <<>>,
                      error |-> "Insufficient data for prediction"]]
    ELSE Forecast(df, trend, WithPosts(trend), hours_ahead, interval_hours, method)

ForecastRequests ==
    [hours_ahead : 1..MaxHoursAhead, interval_hours : 1..MaxInterval, method : PredictionMethods]

ForecastRows == [created_utc : 0..MaxHour, sentiment_label : ClassifierLabels]

label_rank(label) == label_map(label)

\* newest first; the rows of one hour in one order, the buckets being
\* counts and means that do not depend on it
IsCanonical(df) ==
    /\ IsNewestFirst(df)
    /\ \A i \in 1..(Len(df) - 1) :
         df[i].created_utc = df[i + 1].created_utc
             => label_rank(df[i].sentiment_label) <= label_rank(df[i + 1].sentiment_label)

\* seven hourly items after a gap of one hour, newest first: six buckets
\* with posts, more than the moving-average window holds
ScenarioHours == <<7, 6, 5, 4, 3, 2, 0>>

ScenarioFrames ==
    { [i \in 1..7 |-> RowAt(ScenarioHours[i], IF i = 1 THEN "neutral" ELSE labels[i])] :
        labels \in [2..7 -> ClassifierLabels] }

\* df['created_datetime'] = pd.to_datetime(df['created_utc'], unit='s') when
\* the frame has no such column: the column is set on the frame passed in
with_created_datetime(df) ==
    [k \in 1..Len(df) |->
        IF "created_datetime" \in DOMAIN df[k] THEN df[k]
        ELSE [f \in DOMAIN df[k] \cup {"created_datetime"} |->
                 IF f = "created_datetime" THEN df[k].created_utc ELSE df[k][f]]]

\* frames that come with the created_datetime column, as the endpoint's do
FramesWithDatetime ==
    { with_created_datetime(s) : s \in { t \in SeqsUpTo(ForecastRows, 2) : IsCanonical(t) } }

ForecastInit ==
    /\ TrendIdle
    /\ posts_df \in { s \in SeqsUpTo(ForecastRows, MaxPosts) : IsCanonical(s) }
                        \cup ScenarioFrames \cup FramesWithDatetime
    /\ request = [time_window_hours |-> 1, interval_hours |-> 1, trim_empty_intervals |-> TRUE]
    /\ time_cutoff = utcnow - 1
    /\ endpoint = "none"
    /\ ApiNoResult

\* predict_sentiment(df, hours_ahead, interval_hours, method); of the sorted
\* frame the summary reads the length and the time range, which are those
\* of the frame passed in
PredictSentiment ==
    /\ endpoint = "none"
    /\ endpoint' = "predict"
    /\ \E prepared \in {prepare_time_series_data(posts_df)} :
       \E req \in ForecastRequests :
       \E trend \in { calculate_sentiment_trends(sorted, req.interval_hours) :
                         sorted \in prepared } :
       \E forecast \in {predict_sentiment(posts_df, trend, req.hours_ahead,
                                          req.interval_hours, req.method)} :
         /\ request' = req
         /\ trend_df' = trend
         /\ linear_pred' = forecast.linear_pred
         /\ ma_pred' = forecast.ma_pred
         /\ prediction_result' = Some(forecast.result)
    /\ posts_df' = with_created_datetime(posts_df)
    /\ UNCHANGED <<time_cutoff, status_code, time_series_df, time_bins,
                   grouped_data, time_series,
                   sentiment_over_time_data, posts_over_time_data,
                   sentiment_posts_over_time_data, trendVars, fetchVars>>

ForecastNext == PredictSentiment

SpecForecast == ForecastInit /\ [][ForecastNext]_vars

\* ================================================================
\* Paginated search (reddit_scraper.py)
\* ================================================================
MaxLimit == 3
MaxPage == 2
\* the request counter is capped above every limit, to keep it finite
MaxRequests == MaxLimit + 2

\* the posts a page can hold
PagePosts ==
    { [data |-> [title |-> "Tesla", created_utc |-> t, score |-> 1]] : t \in 1..2 }

\* what the server can answer to one request: any status, any page of up
\* to MaxPage posts, with or without a cursor
ServerResponses ==
    [status_code : {200, 429}, children : SeqsUpTo(PagePosts, MaxPage),
     after : {None, Some("t3_next")}]

\* the dictionary appended for one child
PostRecord(post) ==
    [title |-> post.data.title, created_utc |-> post.data.created_utc,
     score |-> post.data.score]

\* the for loop over the children of a page
AppendChildren(posts, page) ==
    posts \o [k \in 1..Len(page) |-> PostRecord(page[k])]

\* the mutant never breaks out of the loop body
PageStopsNever(response) == FALSE

\* the three breaks of the loop body
PageStops(response) ==
    \/ response.status_code # 200
    \/ response.children = <<>>
    \/ response.after = None

FetchInit ==
    /\ TrendIdle
    /\ ApiIdle

\* fetch_reddit_posts(query, limit): the call, up to the loop
CallFetchRedditPosts ==
    /\ fetch_pc = "idle"
    /\ fetch_pc' = "loop"
    /\ fetch_limit' \in 0..MaxLimit
    /\ all_posts' = <<>>
    /\ after' = None
    /\ page_requests' = 0
    /\ UNCHANGED <<fetched_df, apiVars, trendVars, forecastVars>>

\* one pass of the while loop: a request and the handling of its response
FetchPage ==
    /\ fetch_pc = "loop"
    /\ Len(all_posts) < fetch_limit
    /\ page_requests < MaxRequests
    /\ page_requests' = page_requests + 1
    /\ \E response \in ServerResponses :
         /\ fetch_pc' = IF PageStops(response) THEN "stopped" ELSE "loop"
         /\ IF response.status_code # 200 \/ response.children = <<>>
            THEN UNCHANGED <<all_posts, after>>
            ELSE /\ all_posts' = AppendChildren(all_posts, response.children)
                 /\ after' = response.after
    /\ UNCHANGED <<fetch_limit, fetched_df, apiVars, trendVars, forecastVars>>

\* the loop is left, by a break or by its condition, and the frame returned
ReturnPosts ==
    /\ \/ fetch_pc = "stopped"
       \/ fetch_pc = "loop" /\ Len(all_posts) >= fetch_limit
    /\ fetch_pc' = "done"
    /\ fetched_df' = Some(all_posts)
    /\ UNCHANGED <<fetch_limit, all_posts, after, page_requests, apiVars, trendVars,
                   forecastVars>>

FetchNext == CallFetchRedditPosts \/ FetchPage \/ ReturnPosts

SpecFetch == FetchInit /\ [][FetchNext]_vars

\* once called, the function keeps running: a request is always answered and
\* the statements after the loop are executed
SpecFetchLive == SpecFetch /\ WF_vars(FetchPage \/ ReturnPosts)

\* ================================================================
\* Properties of the trending scores
\* ================================================================
Scored == stage = "scored"

Engagement(r) == r.score + 2 * r.num_comments

\* hours_old = max(age, 0.1 hour) at the fetch clock, in ticks
FlooredAge(r) ==
    LET age == FetchClock - r.created_utc
    IN  IF age * 10 >= TicksPerHour THEN Reduced(age * 10, 10) ELSE Reduced(TicksPerHour, 10)

\* engagement / hours_old
ClaimedVelocity(r) ==
    Reduced(Engagement(r) * TicksPerHour * FlooredAge(r).d, FlooredAge(r).n)

\* max(1.0, 2.0 - hours_old / 24) from the floored hours_old
ClaimedRecency(r) ==
    RatMax(Rat(1, 1),
           RatAdd(Rat(2, 1), Reduced(-FlooredAge(r).n, FlooredAge(r).d * 24 * TicksPerHour)))

ClaimedScore(r) ==
    RatMul(RatAdd(RatAdd(RatMul(Rat(1, 2), ClaimedVelocity(r)),
                         RatMul(Rat(3, 10), Rat(Engagement(r), 1))),
                  RatMul(Rat(1, 10), Rat(r.awards * 10, 1))),
           ClaimedRecency(r))

\* C7: the trending score is (0.5*velocity + 0.3*engagement + 0.1*(awards*10)) *
\* recency_multiplier with velocity = engagement/hours_old and recency_multiplier =
\* max(1.0, 2.0 - hours_old/24), both from the same hours_old = max(age, 0.1).
C7_ScoreFromFlooredAge ==
    Scored =>
        \A i \in 1..Len(scored_df) :
            /\ RatEq(scored_df[i].velocity, ClaimedVelocity(scored_df[i]))
            /\ RatEq(scored_df[i].trending_score, ClaimedScore(scored_df[i]))

SameBut(r, q, field) ==
    /\ field # "score" => r.score = q.score
    /\ field # "num_comments" => r.num_comments = q.num_comments
    /\ field # "awards" => r.awards = q.awards
    /\ r.created_utc = q.created_utc

\* C8: with the other fields and the clock fixed, velocity and trending score grow
\* with score, with num_comments and with awards (the velocity does not depend on
\* the awards), and with equal engagement and awards neither is larger for the
\* older of two posts.
C8_Monotone ==
    Scored =>
        \A i, j \in 1..Len(scored_df) :
            LET r == scored_df[i]
                q == scored_df[j]
            IN  /\ (SameBut(r, q, "score") /\ r.score < q.score)
                     => /\ RatLt(r.velocity, q.velocity)
                        /\ RatLt(r.trending_score, q.trending_score)
                /\ (SameBut(r, q, "num_comments") /\ r.num_comments < q.num_comments)
                     => /\ RatLt(r.velocity, q.velocity)
                        /\ RatLt(r.trending_score, q.trending_score)
                /\ (SameBut(r, q, "awards") /\ r.awards < q.awards)
                     => /\ RatLe(r.velocity, q.velocity)
                        /\ RatLt(r.trending_score, q.trending_score)
                /\ (Engagement(r) = Engagement(q) /\ r.awards = q.awards
                    /\ r.created_utc < q.created_utc)
                     => /\ RatLe(r.velocity, q.velocity)
                        /\ RatLe(r.trending_score, q.trending_score)

\* two scored posts with the same positive engagement, one a day old and one two
\* ticks old: the older one has the smaller velocity and the smaller score
C8_Witness ==
    /\ Scored
    /\ \E i, j \in 1..Len(scored_df) :
         /\ Engagement(scored_df[i]) = Engagement(scored_df[j])
         /\ Engagement(scored_df[i]) > 0
         /\ scored_df[i].awards = scored_df[j].awards
         /\ scored_df[i].created_utc = FetchClock - 24 * TicksPerHour
         /\ scored_df[j].created_utc = FetchClock - 2
         /\ RatLt(scored_df[i].velocity, scored_df[j].velocity)
         /\ RatLt(scored_df[i].trending_score, scored_df[j].trending_score)

\* C22: scoring is a function of its arguments alone: the trending score
\* of a row is the same whenever the call is made, so the score in the
\* result equals the score of the same row at every other reading of the
\* wall clock.
C22_ScoreIndependentOfWallClock ==
    Scored =>
        \A i \in 1..Len(scored_df) : \A delay \in 0..MaxDelay :
            RatEq(scored_df[i].trending_score,
                  calculate_trending_score(scored_df[i], FetchClock + delay))

\* ================================================================
\* Properties of the topic extraction
\* ================================================================
Extracted == stage = "extracted"

\* the rows of the frame whose title produced the keyword, each once
MentioningPosts(keyword) ==
    SelectSeq(trending_df,
              LAMBDA r : keyword \in Range(title_keywords[r.title]))

MeanVelocity(rows) ==
    RatMul(SumRat([k \in 1..Len(rows) |-> rows[k].velocity]), Rat(1, Len(rows)))

\* C9: for each candidate keyword, post_count is the number of rows whose title
\* produced it, total_score, total_comments and avg_velocity are the sum, sum and
\* mean over exactly those rows, each counted once, whatever the order and the labels
\* of the rows, and topic_score = 100*post_count + 0.5*total_score + 2*total_comments
\* + 10*avg_velocity (the reported values rounded to two decimals).
C9_AggregatesOverMentioningPosts ==
    Extracted =>
        \A k \in 1..Len(topic_scores) :
            LET e == topic_scores[k]
                rows == MentioningPosts(e.topic)
                total_score == SumSeq([i \in 1..Len(rows) |-> rows[i].score])
                total_comments == SumSeq([i \in 1..Len(rows) |-> rows[i].num_comments])
            IN  /\ rows # <<>>
                /\ e.post_count = Len(rows)
                /\ e.total_score = total_score
                /\ e.total_comments = total_comments
                /\ RatEq(e.avg_velocity, round2(MeanVelocity(rows)))
                /\ RatEq(e.topic_score,
                         round2(RatAdd(Rat(100 * Len(rows) + 2 * total_comments, 1),
                                       RatAdd(Rat(total_score, 2),
                                              RatMul(Rat(10, 1), MeanVelocity(rows))))))

Grouped == stage = "grouped"

\* the names an output topic stands for
NamesOf(t) ==
    IF "variants" \in DOMAIN t /\ t.variants # None THEN Range(t.variants[1]) ELSE {t.topic}

InputNames == { topic_scores[i].topic : i \in 1..Len(topic_scores) }

\* C10: when A is similar to B and B to C, the three are in one output topic of
\* group_similar_topics, for every input list and order, and no two distinct output
\* topics hold names that are similar to each other.
C10_TransitiveGroups ==
    Grouped =>
        /\ \A a, b, c \in InputNames :
             (a # b /\ b # c /\ a # c /\ are_topics_similar(a, b) /\ are_topics_similar(b, c))
                 => \E g \in 1..Len(topics) : {a, b, c} \subseteq NamesOf(topics[g])
        /\ \A g, h \in 1..Len(topics) :
             g # h => \A n \in NamesOf(topics[g]), m \in NamesOf(topics[h]) :
                          ~are_topics_similar(n, m)

PostCounts(ts) == SumSeq([i \in 1..Len(ts) |-> ts[i].post_count])

\* C11: for an input list with distinct names, the post_count values of the topics
\* group_similar_topics returns sum to the sum over the input, and every input name
\* is in exactly one output topic (as its name or among its variants).
C11_MergeConservation ==
    Grouped =>
        /\ PostCounts(topics) = PostCounts(topic_scores)
        /\ \A name \in InputNames :
             Cardinality({ g \in 1..Len(topics) : name \in NamesOf(topics[g]) }) = 1
        /\ \A g \in 1..Len(topics) : NamesOf(topics[g]) \subseteq InputNames

IsMerged(t) == "variants" \in DOMAIN t

\* three input topics, two of them merged and one left alone
C11_Witness ==
    /\ Grouped
    /\ Len(topic_scores) = 3
    /\ Len(topics) = 2
    /\ \E g \in 1..Len(topics) : IsMerged(topics[g])
    /\ PostCounts(topic_scores) > 3

\* the input topics an output topic was merged from, in list order
MembersOf(t) == SelectSeq(topic_scores, LAMBDA m : m.topic \in NamesOf(t))

MergedSums(t) ==
    LET group == MembersOf(t)
    IN  /\ t.post_count = PostCounts(group)
        /\ t.total_score = SumSeq([k \in 1..Len(group) |-> group[k].total_score])
        /\ t.total_comments = SumSeq([k \in 1..Len(group) |-> group[k].total_comments])
        /\ RatEq(t.topic_score, SumRat([k \in 1..Len(group) |-> group[k].topic_score]))
        /\ RatEq(t.avg_velocity,
                 RatMul(SumRat([k \in 1..Len(group) |-> group[k].avg_velocity]),
                        Rat(1, Len(group))))
        /\ t.subreddits = UNION { Range(group[k].subreddits) : k \in 1..Len(group) }
        /\ \A k \in 1..Len(group) : Len(group[k].topic) <= Len(t.topic)
        /\ \E k \in 1..Len(group) : group[k].topic = t.topic

ScenarioMerged ==
    topic_scores = ScenarioTopics =>
        /\ Len(topics) = 1
        /\ topics[1].topic = ScenarioTopics[2].topic
        /\ topics[1].post_count = 8

\* C12 as stated: a merged topic has the sums, the mean, the union and the longest
\* name of its group, and its variants are the other names of the group, the
\* surviving name not among them.
C12_VariantsAreOtherNames ==
    Grouped =>
        /\ ScenarioMerged
        /\ \A g \in 1..Len(topics) :
             IsMerged(topics[g]) =>
                 /\ MergedSums(topics[g])
                 /\ topics[g].topic \notin Range(topics[g].variants[1])

\* C12: a merged topic has the sums of post_count, total_score, total_comments and
\* topic_score of its group, the mean of the group's avg_velocity, the union of the
\* subreddits and the longest name of the group; its variants are all the names of
\* the group, the surviving name included, one per member.
C12_MergeAggregates ==
    Grouped =>
        /\ ScenarioMerged
        /\ \A g \in 1..Len(topics) :
             IsMerged(topics[g]) =>
                 /\ MergedSums(topics[g])
                 /\ Len(topics[g].variants[1]) = Len(MembersOf(topics[g]))
                 /\ Len(topics[g].variants[1]) >= 2
                 /\ topics[g].topic \in Range(topics[g].variants[1])

\* a merged topic whose members differ in score, velocity and subreddits
C12_Witness ==
    /\ Grouped
    /\ \E g \in 1..Len(topics) :
         /\ IsMerged(topics[g])
         /\ Len(MembersOf(topics[g])) = 2
         /\ topics[g].total_score > 0
         /\ RatEq(topics[g].avg_velocity, Rat(1, 4))
         /\ topics[g].subreddit_count = 2

Ranked == stage = "ranked"

\* C13: the list extract_top_trending_topics returns is sorted by non-increasing
\* final topic_score, holds only topics with post_count >= min_posts, has at most
\* top_n entries and carries rank = 1..N in list order, so that the topic of rank 1
\* has the maximum topic_score.
C13_RankedByFinalScore ==
    (Ranked /\ raised = "") =>
        /\ Len(topics) <= topic_request.top_n
        /\ \A i \in 1..Len(topics) :
             /\ topics[i].rank = i
             /\ topics[i].post_count >= topic_request.min_posts
             /\ RatLe(topics[i].topic_score, topics[1].topic_score)
        /\ \A i \in 1..(Len(topics) - 1) :
             RatLe(topics[i + 1].topic_score, topics[i].topic_score)

\* the largest topic_score among the returned topics
MaxTopicScore ==
    topics[CHOOSE i \in 1..Len(topics) :
               \A j \in 1..Len(topics) : RatLe(topics[j].topic_score, topics[i].topic_score)]
        .topic_score

\* C14: every returned topic has trending_strength = 100 * topic_score / (largest
\* topic_score among the returned topics), rounded to one decimal, so it lies in
\* 0..100 and the topic of rank 1 has exactly 100.
C14_StrengthRelativeToMax ==
    (Ranked /\ raised = "" /\ topics # <<>>) =>
        /\ RatEq(topics[1].trending_strength, Rat(100, 1))
        /\ \A i \in 1..Len(topics) :
             /\ RatLe(Rat(0, 1), topics[i].trending_strength)
             /\ RatLe(topics[i].trending_strength, Rat(100, 1))
             /\ RatEq(topics[i].trending_strength,
                      round1(RatMul(Reduced(topics[i].topic_score.n * MaxTopicScore.d,
                                            topics[i].topic_score.d * MaxTopicScore.n),
                                    Rat(100, 1))))

\* C15: topic extraction never raises, whatever the order and the labels of the rows
\* of the frame (after the time-window filter and the sort by velocity).
C15_NeverRaises == (Extracted \/ Ranked) => raised = ""

\* ================================================================
\* Properties of the forecaster
\* ================================================================
Predicted == endpoint = "predict"

\* the dictionary predict_sentiment returned
Result == prediction_result[1]

\* the buckets of the series with total_posts > 0
NonEmptyBuckets == Len(WithPosts(trend_df))

\* C16: a forecast over an empty series or over a series with fewer than
\* 2 non-empty buckets, however many empty buckets it also holds, returns
\* predictions = [] together with an error entry, and does not raise.
C16_InsufficientDataReported ==
    (Predicted /\ NonEmptyBuckets < 2)
        => (Result.predictions = <<>> /\ "error" \in DOMAIN Result)

\* C17: for every method, a forecast over a series with at least 2
\* non-empty buckets returns exactly floor(hours_ahead / interval_hours)
\* points, the i-th with hours_ahead = i * interval_hours and a timestamp
\* i * interval_hours after the last historical bucket.
C17_PointsPerHorizon ==
    (Predicted /\ NonEmptyBuckets >= 2)
        => /\ Len(Result.predictions) = request.hours_ahead \div request.interval_hours
           /\ \A i \in 1..Len(Result.predictions) :
                /\ Result.predictions[i].hours_ahead = i * request.interval_hours
                /\ Result.predictions[i].hours_ahead > 0
                /\ Result.predictions[i].hours_ahead <= request.hours_ahead
                /\ Result.predictions[i].timestamp =
                       trend_df[Len(trend_df)].timestamp + i * request.interval_hours

IsHybrid == Predicted /\ request.method = "hybrid"

BothPredicted == IsHybrid /\ linear_pred # <<>> /\ ma_pred # <<>>

MeanOfTwo(a, b) == RatDivInt(RatAdd(a, b), 2)

\* |a - b| <= tolerance
Within(a, b, tolerance) ==
    /\ RatLe(RatSub(a, b), tolerance)
    /\ RatLe(RatSub(b, a), tolerance)

\* a hybrid forecast made by one method alone is that method's list
OneMethodUnchanged ==
    (IsHybrid /\ "error" \notin DOMAIN Result /\ (linear_pred = <<>> \/ ma_pred = <<>>))
        => Result.predictions = (IF linear_pred # <<>> THEN linear_pred ELSE ma_pred)

\* C18 as stated: the hybrid score, ratio and confidence of the i-th point
\* are the arithmetic means of the linear and the moving-average values,
\* the label is the linear label, and one method alone is passed through.
C18_HybridExactMeans ==
    /\ BothPredicted =>
         /\ Len(Result.predictions) = Len(linear_pred)
         /\ Len(Result.predictions) = Len(ma_pred)
         /\ \A i \in 1..Len(Result.predictions) :
              /\ RatEq(Result.predictions[i].predicted_sentiment_score,
                       MeanOfTwo(linear_pred[i].predicted_sentiment_score,
                                 ma_pred[i].predicted_sentiment_score))
              /\ RatEq(Result.predictions[i].predicted_sentiment_ratio,
                       MeanOfTwo(linear_pred[i].predicted_sentiment_ratio,
                                 ma_pred[i].predicted_sentiment_ratio))
              /\ RatEq(Result.predictions[i].confidence,
                       MeanOfTwo(linear_pred[i].confidence, ma_pred[i].confidence))
              /\ Result.predictions[i].predicted_sentiment = linear_pred[i].predicted_sentiment
    /\ OneMethodUnchanged

\* C18, amended: the hybrid values are the arithmetic means rounded to 3
\* decimals (score, ratio) and to 2 decimals (confidence), so they lie
\* within 0.0005 and 0.005 of the means; the label is the linear label,
\* and one method alone is passed through unchanged.
C18_HybridRoundedMeans ==
    /\ BothPredicted =>
         /\ Len(Result.predictions) = Len(linear_pred)
         /\ Len(Result.predictions) = Len(ma_pred)
         /\ \A i \in 1..Len(Result.predictions) :
              /\ 1000 % Result.predictions[i].predicted_sentiment_score.d = 0
              /\ 1000 % Result.predictions[i].predicted_sentiment_ratio.d = 0
              /\ 100 % Result.predictions[i].confidence.d = 0
              /\ Within(Result.predictions[i].predicted_sentiment_score,
                        MeanOfTwo(linear_pred[i].predicted_sentiment_score,
                                  ma_pred[i].predicted_sentiment_score),
                        Rat(1, 2000))
              /\ Within(Result.predictions[i].predicted_sentiment_ratio,
                        MeanOfTwo(linear_pred[i].predicted_sentiment_ratio,
                                  ma_pred[i].predicted_sentiment_ratio),
                        Rat(1, 2000))
              /\ Within(Result.predictions[i].confidence,
                        MeanOfTwo(linear_pred[i].confidence, ma_pred[i].confidence),
                        Rat(1, 200))
              /\ Result.predictions[i].predicted_sentiment = linear_pred[i].predicted_sentiment
    /\ OneMethodUnchanged

\* a hybrid point whose confidence had to be rounded, the two methods
\* disagreeing on the score
C18_Witness ==
    /\ BothPredicted
    /\ \E i \in 1..Len(Result.predictions) :
         /\ ~RatEq(Result.predictions[i].confidence,
                   MeanOfTwo(linear_pred[i].confidence, ma_pred[i].confidence))
         /\ ~RatEq(linear_pred[i].predicted_sentiment_score,
                   ma_pred[i].predicted_sentiment_score)

\* the label the thresholds give a reported score
ClaimedLabel(score) ==
    IF RatLt(Rat(1, 10), score) THEN "positive"
    ELSE IF RatLt(score, Rat(-1, 10)) THEN "negative"
    ELSE "neutral"

\* C19: every returned point, whatever the method, is labelled by its own
\* predicted_sentiment_score: positive above 0.1, negative below -0.1,
\* neutral otherwise.
C19_LabelFollowsScore ==
    (Predicted /\ "error" \notin DOMAIN Result)
        => \A i \in 1..Len(Result.predictions) :
             Result.predictions[i].predicted_sentiment =
                 ClaimedLabel(Result.predictions[i].predicted_sentiment_score)

InUnitRange(x) == RatLe(Rat(-1, 1), x) /\ RatLe(x, Rat(1, 1))

Clamped(point) ==
    /\ InUnitRange(point.predicted_sentiment_score)
    /\ InUnitRange(point.predicted_sentiment_ratio)
    /\ RatLe(Rat(0, 1), point.confidence)
    /\ RatLe(point.confidence, Rat(1, 1))

\* C20: every point of every method has predicted_sentiment_score and
\* predicted_sentiment_ratio in [-1, 1] and confidence in [0, 1].
C20_ForecastClamp ==
    Predicted =>
        /\ \A i \in 1..Len(Result.predictions) : Clamped(Result.predictions[i])
        /\ \A i \in 1..Len(linear_pred) : Clamped(linear_pred[i])
        /\ \A i \in 1..Len(ma_pred) : Clamped(ma_pred[i])

\* the fitted line of avg_sentiment at the first future timestamp
FirstLinearValue ==
    LET training_data == WithPosts(trend_df)
        first_timestamp == training_data[1].timestamp
        X == [k \in 1..Len(training_data) |-> training_data[k].timestamp - first_timestamp]
    IN  predict(LinearRegression(X, Column(training_data, "avg_sentiment")),
                trend_df[Len(trend_df)].timestamp + request.interval_hours - first_timestamp)

\* a hybrid forecast whose line left the range and was brought back to 1,
\* over a series that has the moving average below 1
C20_Witness ==
    /\ BothPredicted
    /\ RatLt(Rat(1, 1), FirstLinearValue)
    /\ RatEq(linear_pred[1].predicted_sentiment_score, Rat(1, 1))
    /\ RatLt(ma_pred[1].predicted_sentiment_score, Rat(1, 1))
    /\ Len(Result.predictions) >= 2

\* base ** k for a rational base
RECURSIVE Power(_, _)
Power(base, k) == IF k = 0 THEN Rat(1, 1) ELSE RatMul(base, Power(base, k - 1))

MovingAverageRan == Predicted /\ request.method \in {"moving_average", "hybrid"}

NonIncreasingConfidence(points) ==
    \A i \in 1..Len(points) : \A j \in (i + 1)..Len(points) :
        RatLe(points[j].confidence, points[i].confidence)

\* C21 as stated: the confidence of the i-th moving-average point is
\* 0.85 * 0.85^i, so the confidence never grows along the forecast.
C21_ConfidenceIsDecay ==
    MovingAverageRan =>
        /\ \A i \in 1..Len(ma_pred) :
             RatEq(ma_pred[i].confidence, RatMul(Rat(17, 20), Power(Rat(17, 20), i)))
        /\ NonIncreasingConfidence(ma_pred)

\* C21, amended: the confidence of the i-th moving-average point is
\* 0.85 * 0.85^i rounded to 2 decimals, and it never grows along the
\* forecast.
C21_ConfidenceIsRoundedDecay ==
    MovingAverageRan =>
        /\ \A i \in 1..Len(ma_pred) :
             /\ 100 % ma_pred[i].confidence.d = 0
             /\ Within(ma_pred[i].confidence, RatMul(Rat(17, 20), Power(Rat(17, 20), i)),
                       Rat(1, 200))
        /\ NonIncreasingConfidence(ma_pred)

\* a moving-average forecast of two points or more
C21_Witness ==
    /\ Predicted
    /\ request.method = "moving_average"
    /\ Len(ma_pred) >= 2
    /\ RatLt(ma_pred[2].confidence, ma_pred[1].confidence)

LinearRan ==
    Predicted /\ request.method \in {"linear", "hybrid"} /\ "error" \notin DOMAIN Result

\* C24: predict_sentiment_linear returns a non-empty list whenever the
\* series holds at least 2 non-empty buckets and
\* floor(hours_ahead / interval_hours) >= 1, and an empty list when fewer
\* than 2 buckets are non-empty.
C24_LinearNeedsTwoNonEmptyBuckets ==
    LinearRan =>
        /\ (NonEmptyBuckets >= 2 /\ request.hours_ahead \div request.interval_hours >= 1)
              => linear_pred # <<>>
        /\ NonEmptyBuckets < 2 => linear_pred = <<>>

\* the avg_sentiment of the last window_size non-empty buckets
WindowValues == tail(Column(WithPosts(trend_df), "avg_sentiment"), window_size)

Anchor == Mean(WindowValues)

\* mean of the last half of the window minus mean of the first half, each
\* half floor(len / 2) buckets long
HalvesDifference ==
    RatSub(Mean(tail(WindowValues, Len(WindowValues) \div 2)),
           Mean(head(WindowValues, Len(WindowValues) \div 2)))

\* clamp(anchor + rate * i * 0.85^i, -1, 1)
Projected(anchor, rate, i) ==
    LET value == RatAdd(anchor, RatMul(RatMul(rate, Rat(i, 1)), Power(Rat(17, 20), i)))
    IN  IF RatLt(value, Rat(-1, 1)) THEN Rat(-1, 1)
        ELSE IF RatLt(Rat(1, 1), value) THEN Rat(1, 1)
        ELSE value

MovingAveragePredicted == MovingAverageRan /\ ma_pred # <<>>

\* C25 as stated: the anchor is the mean avg_sentiment of the last
\* window_size non-empty buckets, the trend rate is the difference of the
\* means of the two halves of that window divided by window_size, and the
\* score of point i is clamp(anchor + trend_rate * i * 0.85^i, -1, 1).
C25_RatePerWindowSize ==
    MovingAveragePredicted =>
        LET anchor == Anchor
            rate == RatDivInt(HalvesDifference, window_size)
        IN  \A i \in 1..Len(ma_pred) :
                RatEq(ma_pred[i].predicted_sentiment_score, Projected(anchor, rate, i))

\* C25, amended: the trend rate is the difference of the means of the two
\* halves divided by the number of buckets in the window (window_size when
\* that many non-empty buckets exist, fewer otherwise), and the score of
\* point i is clamp(anchor + trend_rate * i * 0.85^i, -1, 1) rounded to 3
\* decimals; empty buckets enter neither the anchor nor the rate.
C25_RatePerWindowBucket ==
    MovingAveragePredicted =>
        LET anchor == Anchor
            rate == RatDivInt(HalvesDifference, Len(WindowValues))
        IN  \A i \in 1..Len(ma_pred) :
                /\ 1000 % ma_pred[i].predicted_sentiment_score.d = 0
                /\ Within(ma_pred[i].predicted_sentiment_score,
                          Projected(anchor, rate, i), Rat(1, 2000))

\* a moving-average forecast over six non-empty buckets and an empty one,
\* the bucket outside the window differing from the anchor, the halves
\* differing, and no point at a limit of the range
C25_Witness ==
    /\ MovingAveragePredicted
    /\ NonEmptyBuckets > window_size
    /\ Len(trend_df) > NonEmptyBuckets
    /\ ~RatEq(WithPosts(trend_df)[1].avg_sentiment, Anchor)
    /\ ~RatEq(HalvesDifference, Rat(0, 1))
    /\ Len(ma_pred) >= 2
    /\ \A i \in 1..Len(ma_pred) :
         /\ RatLt(Rat(-1, 1), ma_pred[i].predicted_sentiment_score)
         /\ RatLt(ma_pred[i].predicted_sentiment_score, Rat(1, 1))

Summarised == Predicted /\ "error" \notin DOMAIN Result

FirstNonEmpty == WithPosts(trend_df)[1]
LastNonEmpty == WithPosts(trend_df)[NonEmptyBuckets]

\* C26: the trend of the historical summary is increasing when the last
\* non-empty bucket's avg_sentiment is above the first one's, decreasing
\* when it is below, and stable when they are equal or fewer than 2
\* buckets are non-empty.
C26_TrendOfSummary ==
    Summarised =>
        Result.historical_summary.trend =
            (IF NonEmptyBuckets < 2 THEN "stable"
             ELSE IF RatLt(FirstNonEmpty.avg_sentiment, LastNonEmpty.avg_sentiment)
                  THEN "increasing"
             ELSE IF RatLt(LastNonEmpty.avg_sentiment, FirstNonEmpty.avg_sentiment)
                  THEN "decreasing"
             ELSE "stable")

\* C27: calculate_sentiment_trends puts every item in exactly one bucket:
\* for a non-empty input the total_posts of the trend points add up to
\* the number of items.
C27_EveryItemBucketed ==
    (Predicted /\ posts_df # <<>>)
        => SumSeq(Column(trend_df, "total_posts")) = Len(posts_df)

\* C28: predict_sentiment and its helpers leave the caller's frame as it
\* was: the same rows, columns and values after the call as before.
C28_InputUnchanged == [][posts_df' = posts_df]_vars

\* ================================================================
\* Properties of the paginated search
\* ================================================================
Returned == fetch_pc = "done"

\* C23: fetch_reddit_posts(query, limit) returns at most limit posts,
\* whatever pages the server sends.
C23_AtMostLimitPosts == Returned => Len(fetched_df[1]) <= fetch_limit

\* ---------------------------------------------------------------- C30
\* one pass of the loop has run: a page was requested
PageRequested == page_requests' = page_requests + 1

\* C30: the pagination loop terminates whatever the server answers: a pass
\* of the loop either stops it or strictly increases the number of collected
\* posts, so at most limit pages are requested, and the call returns the
\* posts collected so far
C30_LoopTerminates ==
    /\ [][PageRequested =>
            \/ fetch_pc' = "stopped"
            \/ Len(all_posts') > Len(all_posts)]_vars
    /\ [][page_requests' <= fetch_limit']_vars
    /\ [][fetch_pc' = "done" => fetched_df' = Some(all_posts)]_vars
    /\ (fetch_pc = "loop") ~> Returned

\* a call with limit 3 that requested three pages of one post each and
\* returned the three posts
C30_Witness ==
    /\ Returned
    /\ fetch_limit = MaxLimit
    /\ page_requests = fetch_limit
    /\ Len(fetched_df[1]) = fetch_limit

\* ================================================================
\* Properties of the aggregation endpoints
\* ================================================================
CeilDiv(a, b) == (a + b - 1) \div b

Bucketed == endpoint \in {"analyze", "charts"} /\ status_code = 200

NumBuckets == IF time_bins = <<>> THEN 0 ELSE Len(time_bins) - 1

\* the rows of the window that lie in [lo, hi), counted from the sorted frame
RowsIn(lo, hi) ==
    { i \in 1..Len(time_series_df) :
        time_series_df[i].created_utc >= lo /\ time_series_df[i].created_utc < hi }

RowsLabelled(lo, hi, name) ==
    { i \in RowsIn(lo, hi) : time_series_df[i].sentiment_label = name }

BucketsOf(i) ==
    { b \in 1..NumBuckets :
        time_bins[b] <= time_series_df[i].created_utc
        /\ time_series_df[i].created_utc < time_bins[b + 1] }

\* C1: the bucketing yields ceil((end - start)/h) contiguous buckets of width h,
\* ordered by start, and every row of the window lies in exactly one of them.
C1_BucketCoverage ==
    Bucketed =>
        /\ NumBuckets = CeilDiv(request.time_window_hours, request.interval_hours)
        /\ \A b \in 1..NumBuckets :
             /\ time_bins[b] = time_cutoff + (b - 1) * request.interval_hours
             /\ time_bins[b + 1] - time_bins[b] = request.interval_hours
        /\ \A i \in 1..Len(time_series_df) :
             (time_cutoff <= time_series_df[i].created_utc /\ time_series_df[i].created_utc < utcnow)
                 => Cardinality(BucketsOf(i)) = 1

Pos(b) == Cardinality(RowsLabelled(time_bins[b], time_bins[b + 1], "positive"))
Neg(b) == Cardinality(RowsLabelled(time_bins[b], time_bins[b + 1], "negative"))
Neu(b) == Cardinality(RowsLabelled(time_bins[b], time_bins[b + 1], "neutral"))

Analyzed == endpoint = "analyze" /\ status_code = 200

\* C2: neutral rows take no part in the vote: a bucket with more positive than
\* negative rows is +1, one with more negative than positive rows is -1, whatever
\* its number of neutral rows, and a bucket without positive or negative rows is
\* null before the fill; six hourly positive rows in 2h buckets give 1, 1, 1.
C2_NeutralIgnored ==
    Analyzed =>
        /\ \A b \in 1..NumBuckets :
             /\ Pos(b) > Neg(b) => grouped_data[b].sentiment_value = Some(1)
             /\ Pos(b) < Neg(b) => grouped_data[b].sentiment_value = Some(-1)
             /\ (Pos(b) = 0 /\ Neg(b) = 0) => grouped_data[b].sentiment_value = None
        /\ (request = ScenarioRequest
            /\ posts_df = [i \in 1..6 |-> RowAt(utcnow - i, "positive")])
               => [b \in 1..Len(grouped_data) |-> grouped_data[b].sentiment_value]
                      = <<Some(1), Some(1), Some(1)>>

\* a bucket holding one positive, two negative and a neutral row came out -1, and
\* another holds more neutral rows than positive ones and came out +1
C2_Witness ==
    /\ Analyzed
    /\ \E b \in 1..NumBuckets :
         Pos(b) = 1 /\ Neg(b) = 2 /\ Neu(b) = 1 /\ grouped_data[b].sentiment_value = Some(-1)

C2_WitnessNeutralMajority ==
    /\ Analyzed
    /\ \E b \in 1..NumBuckets :
         Pos(b) = 1 /\ Neg(b) = 0 /\ Neu(b) = 2 /\ grouped_data[b].sentiment_value = Some(1)

Tied(b) == Pos(b) = Neg(b) /\ Pos(b) >= 1

\* C3 as stated: a bucket with as many positive as negative rows is +1 in every
\* row order.
C3_TiePrefersPositive ==
    Analyzed => \A b \in 1..NumBuckets : Tied(b) => grouped_data[b].sentiment_value = Some(1)

\* the first positive or negative row of bucket b, in the order of the sorted frame
FirstVoter(b) ==
    Min({ i \in RowsIn(time_bins[b], time_bins[b + 1]) :
            time_series_df[i].sentiment_label \in {"positive", "negative"} })

\* C3 amended: on a tie the bucket takes the sentiment of its first non-neutral row.
C3_TieFollowsFirstRow ==
    Analyzed =>
        \A b \in 1..NumBuckets :
            Tied(b) => grouped_data[b].sentiment_value =
                           Some(label_map(time_series_df[FirstVoter(b)].sentiment_label))

C3_Witness ==
    /\ Analyzed
    /\ \E b \in 1..NumBuckets :
         /\ Tied(b)
         /\ time_series_df[FirstVoter(b)].sentiment_label = "negative"
         /\ grouped_data[b].sentiment_value = Some(-1)

\* the last bucket before b that was not null before the fill, 0 when there is none
LastKnown(b) ==
    LET known == { j \in 1..(b - 1) : grouped_data[j].sentiment_value # None }
    IN  IF known = {} THEN 0 ELSE Max(known)

\* C4: after the fill every value is -1, 0 or 1; a bucket that was null takes the
\* value of the nearest earlier non-null bucket, or 0 when there is none, and a
\* non-null bucket keeps its value.
C4_ForwardFill ==
    Analyzed =>
        /\ Len(time_series) = Len(grouped_data)
        /\ \A b \in 1..Len(grouped_data) :
             /\ time_series[b].sentiment_value \in {-1, 0, 1}
             /\ time_series[b].timestamp = grouped_data[b].timestamp
             /\ grouped_data[b].sentiment_value # None
                  => time_series[b].sentiment_value = grouped_data[b].sentiment_value[1]
             /\ (grouped_data[b].sentiment_value = None /\ LastKnown(b) = 0)
                  => time_series[b].sentiment_value = 0
             /\ (grouped_data[b].sentiment_value = None /\ LastKnown(b) # 0)
                  => time_series[b].sentiment_value
                         = grouped_data[LastKnown(b)].sentiment_value[1]

\* a leading null bucket became 0 and a null bucket two places after a -1 became -1
C4_Witness ==
    /\ Analyzed
    /\ Len(grouped_data) >= 4
    /\ grouped_data[1].sentiment_value = None /\ time_series[1].sentiment_value = 0
    /\ grouped_data[2].sentiment_value = Some(-1)
    /\ grouped_data[3].sentiment_value = None
    /\ grouped_data[4].sentiment_value = None /\ time_series[4].sentiment_value = -1

EmptyInput == FilterWindow(posts_df, time_cutoff) = <<>>

Charted == endpoint = "charts" /\ status_code = 200

CountIn(lo, name) ==
    Cardinality(RowsLabelled(lo, lo + request.interval_hours, name))

TotalIn(lo) == Cardinality(RowsIn(lo, lo + request.interval_hours))

\* the counts of a point are those of the rows of its bucket and add up to the total
CountsMatch(pt) ==
    /\ pt.positive_count = CountIn(pt.timestamp, "positive")
    /\ pt.negative_count = CountIn(pt.timestamp, "negative")
    /\ pt.neutral_count = CountIn(pt.timestamp, "neutral")
    /\ pt.total_posts = TotalIn(pt.timestamp)
    /\ pt.positive_count + pt.negative_count + pt.neutral_count = pt.total_posts

AllZero(pt, avg) ==
    /\ pt.positive_count = 0 /\ pt.negative_count = 0 /\ pt.neutral_count = 0
    /\ pt.total_posts = 0 /\ avg.n = 0

\* C6 as stated: every non-empty bucket of the statistics variant reports exactly
\* (positive_count - negative_count)/total_posts, its counts add up to total_posts,
\* and every empty bucket is all zero.
C6_ExactAverage ==
    /\ Charted =>
         \A k \in 1..Len(sentiment_over_time_data) :
             LET pt == sentiment_over_time_data[k]
             IN  /\ CountsMatch(pt)
                 /\ pt.total_posts > 0 =>
                      RatEq(pt.average_sentiment,
                            Rat(pt.positive_count - pt.negative_count, pt.total_posts))
                 /\ pt.total_posts = 0 => AllZero(pt, pt.average_sentiment)
    /\ endpoint = "trends" =>
         \A k \in 1..Len(trend_df) :
             LET pt == trend_df[k]
             IN  /\ CountsMatch(pt)
                 /\ pt.total_posts > 0 =>
                      RatEq(pt.avg_sentiment,
                            Rat(pt.positive_count - pt.negative_count, pt.total_posts))
                 /\ pt.total_posts = 0 => AllZero(pt, pt.avg_sentiment)

\* C6 amended: the charts endpoint reports (positive_count - negative_count)/
\* total_posts rounded to three decimals, calculate_sentiment_trends reports it
\* exactly; the counts add up to total_posts and every empty bucket is all zero,
\* also right after a non-empty one.
C6_RoundedAverage ==
    /\ Charted =>
         \A k \in 1..Len(sentiment_over_time_data) :
             LET pt == sentiment_over_time_data[k]
                 avg == pt.average_sentiment
             IN  /\ CountsMatch(pt)
                 /\ pt.total_posts > 0 =>
                      /\ avg.d = 1000
                      /\ 2 * Abs(avg.n * pt.total_posts
                                 - 1000 * (pt.positive_count - pt.negative_count))
                             <= pt.total_posts
                 /\ pt.total_posts = 0 => AllZero(pt, avg)
    /\ endpoint = "trends" =>
         \A k \in 1..Len(trend_df) :
             LET pt == trend_df[k]
             IN  /\ CountsMatch(pt)
                 /\ pt.total_posts > 0 =>
                      RatEq(pt.avg_sentiment,
                            Rat(pt.positive_count - pt.negative_count, pt.total_posts))
                 /\ pt.total_posts = 0 => AllZero(pt, pt.avg_sentiment)

\* a bucket with two positive rows and a neutral one is reported as 0.667, and the
\* empty bucket after it as zero
C6_Witness ==
    /\ Charted
    /\ Len(sentiment_over_time_data) >= 2
    /\ sentiment_over_time_data[1].positive_count = 2
    /\ sentiment_over_time_data[1].neutral_count = 1
    /\ sentiment_over_time_data[1].average_sentiment = Rat(667, 1000)
    /\ sentiment_over_time_data[2].total_posts = 0
    /\ sentiment_over_time_data[2].average_sentiment.n = 0

\* ---------------------------------------------------------------- C29
\* posts of every bucket of the chart before trimming, recounted from the sorted
\* rows and the bin edges
BucketPosts(i) == Len(Between(time_series_df, time_bins[i], time_bins[i + 1]))

BucketsWithPosts == { i \in 1..(Len(time_bins) - 1) : BucketPosts(i) > 0 }

SameShape ==
    /\ Len(sentiment_over_time_data) = Len(posts_over_time_data)
    /\ Len(sentiment_posts_over_time_data) = Len(posts_over_time_data)
    /\ \A k \in 1..Len(posts_over_time_data) :
         /\ sentiment_over_time_data[k].timestamp = posts_over_time_data[k].timestamp
         /\ sentiment_posts_over_time_data[k].timestamp = posts_over_time_data[k].timestamp

Untrimmed ==
    /\ Len(posts_over_time_data) = Len(time_bins) - 1
    /\ \A i \in 1..(Len(time_bins) - 1) :
         /\ posts_over_time_data[i].timestamp = time_bins[i]
         /\ posts_over_time_data[i].posts = BucketPosts(i)

\* C29: the three chart series have the same length and the same timestamp at
\* every index; with trim_empty_intervals set and a bucket with posts, the first
\* and the last returned bucket have posts and every bucket with posts is still
\* returned; when no bucket has posts the series are returned untrimmed
C29_SeriesAlignedAndTrimmed ==
    Charted =>
      /\ SameShape
      /\ (request.trim_empty_intervals /\ BucketsWithPosts # {}) =>
           /\ posts_over_time_data # <<>>
           /\ posts_over_time_data[1].posts > 0
           /\ posts_over_time_data[Len(posts_over_time_data)].posts > 0
           /\ \A i \in BucketsWithPosts :
                \E k \in 1..Len(posts_over_time_data) :
                   /\ posts_over_time_data[k].timestamp = time_bins[i]
                   /\ posts_over_time_data[k].posts = BucketPosts(i)
                   /\ sentiment_over_time_data[k].total_posts = BucketPosts(i)
      /\ BucketsWithPosts = {} => Untrimmed

\* a chart of four buckets whose first and last buckets were empty and were
\* trimmed away, the two buckets with posts between them being returned
C29_Witness ==
    /\ Charted
    /\ request.trim_empty_intervals
    /\ Len(time_bins) - 1 = 4
    /\ BucketsWithPosts = {2, 3}
    /\ Len(posts_over_time_data) = 2
    /\ posts_over_time_data[1].timestamp = time_bins[2]

====
